---- MODULE Spec2Model ----
(***************************************************************************)
(* Verification model of the ex-convex schema intelligence core:           *)
(*   - the schema drift differ          (src/src/schema/driftDiff.ts)      *)
(*   - the index coverage analyzer      (src/unnamed/part_012)             *)
(*   - the schema definition parser     (src/src/schema/schemaParser.ts)   *)
(* Each component has its own specification over its own variables; the   *)
(* variables of the other components stay at their idle value.             *)
(***************************************************************************)
EXTENDS Integers, Sequences, FiniteSets, TLC

VARIABLES
  from,        \* driftDiff: the `from` snapshot handed to computeDrift
  to,          \* driftDiff: the `to` snapshot handed to computeDrift
  drift,       \* driftDiff: the SchemaDriftDto returned, or NoDrift before the call
  usage,       \* indexAnalyzer: the QueryUsage under evaluation
  knownIndexes,\* indexAnalyzer: the IndexDefinition[] handed to analyzeIndexCoverage
  coverage,    \* indexAnalyzer: [issues |-> IndexCoverageIssue[]], or NoCoverage before
  fs,          \* schemaParser: the workspace files, uri -> content
  walk,        \* schemaParser: parseConvexSchema's position, locals and counters
  source,      \* schemaParser: the source text handed to parseSourceFile
  parsing,     \* schemaParser: parseSourceFile's position and result lists
  queryFiles,  \* indexAnalyzer: the files findConvexQueryFiles returned, with their content
  scan,        \* indexAnalyzer: analyzeIndexCoverage's position, issues and result
  samples,     \* typeInferencer: the table name and documents handed to inferSchemaFromDocs
  inference,   \* typeInferencer: the schema and relations returned, or NoInference before
  validatorArgs,\* schemaParser: the argument texts of two literal validators
  typeNames,   \* schemaParser: the type lists resolveValidatorType returned for them
  chainFile,   \* indexAnalyzer: the path and content handed to extractQueryUsages
  extraction,  \* indexAnalyzer: the usages extracted and the issues they evaluate to
  watcher,     \* queryWatcher: the fields of the QueryWatcher, its calls in flight, its timers
  emitted      \* queryWatcher: the onUpdate events fired so far

driftVars == <<from, to, drift>>

analyzerVars == <<usage, knownIndexes, coverage>>

importVars == <<fs, walk>>

parserVars == <<source, parsing>>

scanVars == <<queryFiles, scan>>

inferVars == <<samples, inference>>

resolveVars == <<validatorArgs, typeNames>>

chainVars == <<chainFile, extraction>>

watcherVars == <<watcher, emitted>>

vars ==
  <<from, to, drift, usage, knownIndexes, coverage, fs, walk, source, parsing,
    queryFiles, scan, samples, inference, validatorArgs, typeNames, chainFile,
    extraction, watcher, emitted>>

(***************************************************************************)
(* Bounds of the model.                                                    *)
(***************************************************************************)
\* longest tables list of a snapshot
MaxTables == 2
\* longest fields list of a table
MaxFields == 2
\* longest list of known indexes handed to the analyzer
MaxIndexes == 2
\* most range operators counted in one query chain
MaxRangeOps == 1
\* most import statements of the entry schema file
MaxImports == 2
\* most statements of an imported file
MaxStatements == 2
\* most table definitions of a parsed source
MaxSourceTables == 2
\* most query files scanned by the analyzer
MaxQueryFiles == 2
\* most lines of a query file
MaxLines == 2
\* most sampled documents when the documents are of mixed shapes
MaxDocs == 2
\* most sampled documents when each has the one field userId or none
MaxSampleDocs == 10

(***************************************************************************)
(* Generic helpers.                                                        *)
(***************************************************************************)
SeqsUpTo(S, n) == UNION {[1..k -> S] : k \in 0..n}

Range(s) == {s[i] : i \in DOMAIN s}

\* Array.prototype.sort with a comparator rank(a) - rank(b): a stable sort
\* (ECMAScript 2019), here an insertion sort over <<rank, element>> pairs that
\* keeps elements of equal rank in their order.
RECURSIVE InsertByRank(_, _)
InsertByRank(sorted, x) ==
  IF sorted = <<>> THEN <<x>>
  ELSE IF Head(sorted)[1] <= x[1]
       THEN <<Head(sorted)>> \o InsertByRank(Tail(sorted), x)
       ELSE <<x>> \o sorted

RECURSIVE SortRanked(_)
SortRanked(pairs) ==
  IF pairs = <<>> THEN <<>>
  ELSE InsertByRank(SortRanked(SubSeq(pairs, 1, Len(pairs) - 1)), pairs[Len(pairs)])

\* the elements of sorted <<rank, element>> pairs
Elements(pairs) == [i \in DOMAIN pairs |-> pairs[i][2]]

\* A JavaScript Map as the sequence of its entries <<key, value>> in insertion
\* order: setting an existing key keeps its position and replaces its value.
MapHas(m, k) == \E i \in DOMAIN m : m[i][1] = k

MapGet(m, k) == m[CHOOSE i \in DOMAIN m : m[i][1] = k][2]

\* an entry list that keeps a repeated key as a second entry
MapSet_append(m, k, v) == Append(m, <<k, v>>)
MapSet(m, k, v) ==
  IF MapHas(m, k)
  THEN [i \in DOMAIN m |-> IF m[i][1] = k THEN <<k, v>> ELSE m[i]]
  ELSE Append(m, <<k, v>>)

\* new Map(entries)
RECURSIVE NewMap(_)
NewMap(entries) ==
  IF entries = <<>> THEN <<>>
  ELSE LET last == entries[Len(entries)]
       IN MapSet(NewMap(SubSeq(entries, 1, Len(entries) - 1)), last[1], last[2])

(***************************************************************************)
(* Idle values: what a component's variables hold while another            *)
(* component's specification runs.                                         *)
(***************************************************************************)
NoSnapshot == [none |-> TRUE]
NoDrift == [none |-> TRUE]
NoUsage == [none |-> TRUE]
NoCoverage == [none |-> TRUE]

DriftIdle == from = NoSnapshot /\ to = NoSnapshot /\ drift = NoDrift

AnalyzerIdle == usage = NoUsage /\ knownIndexes = <<>> /\ coverage = NoCoverage

NoFiles == [none |-> TRUE]
NoWalk == [none |-> TRUE]

ImportIdle == fs = NoFiles /\ walk = NoWalk

NoSource == [none |-> TRUE]
NoParsing == [none |-> TRUE]

ParserIdle == source = NoSource /\ parsing = NoParsing

NoQueryFiles == [none |-> TRUE]
NoScan == [none |-> TRUE]

ScanIdle == queryFiles = NoQueryFiles /\ scan = NoScan

NoSamples == [none |-> TRUE]
NoInference == [none |-> TRUE]

InferIdle == samples = NoSamples /\ inference = NoInference

NoValidatorArgs == [none |-> TRUE]
NoTypeNames == [none |-> TRUE]

ResolveIdle == validatorArgs = NoValidatorArgs /\ typeNames = NoTypeNames

NoChainFile == [none |-> TRUE]
NoExtraction == [none |-> TRUE]

ChainIdle == chainFile = NoChainFile /\ extraction = NoExtraction

NoWatcher == [none |-> TRUE]
NoEmitted == [none |-> TRUE]

WatcherIdle == watcher = NoWatcher /\ emitted = NoEmitted

(***************************************************************************)
(* Schema drift differ: src/src/schema/driftDiff.ts                        *)
(***************************************************************************)

\* Type names and field paths of the modelled snapshots, each in the order
\* the code's string comparison gives them.
TypeNameOrder == <<"number", "string">>
PathOrder == <<"name", "status">>

IndexIn(order, x) == CHOOSE i \in DOMAIN order : order[i] = x

\* default Array.prototype.sort() order of type names (UTF-16 code units)
TypeRank(t) == IndexIn(TypeNameOrder, t)
\* String.prototype.localeCompare order of paths
PathRank(p) == IndexIn(PathOrder, p)

\* [...types].sort()
SortedTypes(types) ==
  Elements(SortRanked([i \in DOMAIN types |-> <<TypeRank(types[i]), types[i]>>]))

\* JSON.stringify([...toField.types].sort()) !== JSON.stringify([...fromField.types].sort())
TypesChanged_sortOne(toTypes, fromTypes) == SortedTypes(toTypes) # fromTypes
TypesChanged_noSort(toTypes, fromTypes) == toTypes # fromTypes
TypesChanged(toTypes, fromTypes) == SortedTypes(toTypes) # SortedTypes(fromTypes)

FieldEntries(fields) == [i \in DOMAIN fields |-> <<fields[i].path, fields[i]>>]

\* first loop of diffFields: paths of toMap, added or type_changed
RECURSIVE DiffToEntries(_, _)
DiffToEntries(toEntries, fromMap) ==
  IF toEntries = <<>> THEN <<>>
  ELSE LET path == Head(toEntries)[1]
           toField == Head(toEntries)[2]
           rest == DiffToEntries(Tail(toEntries), fromMap)
       IN IF ~MapHas(fromMap, path)
          THEN <<[path |-> path, change |-> "added", newTypes |-> toField.types]>> \o rest
          ELSE IF TypesChanged(toField.types, MapGet(fromMap, path).types)
               THEN <<[path |-> path, change |-> "type_changed",
                       oldTypes |-> MapGet(fromMap, path).types,
                       newTypes |-> toField.types]>> \o rest
               ELSE rest

\* second loop of diffFields: paths of fromMap that toMap lacks, removed
RemovedEntries_none(fromEntries, toMap) == <<>>
RECURSIVE RemovedEntries(_, _)
RemovedEntries(fromEntries, toMap) ==
  IF fromEntries = <<>> THEN <<>>
  ELSE LET path == Head(fromEntries)[1]
           fromField == Head(fromEntries)[2]
           rest == RemovedEntries(Tail(fromEntries), toMap)
       IN IF ~MapHas(toMap, path)
          THEN <<[path |-> path, change |-> "removed", oldTypes |-> fromField.types]>> \o rest
          ELSE rest

diffFields(fromFields, toFields) ==
  LET fromMap == NewMap(FieldEntries(fromFields))
      toMap == NewMap(FieldEntries(toFields))
      diffs == DiffToEntries(toMap, fromMap) \o RemovedEntries(fromMap, toMap)
  IN Elements(SortRanked([i \in DOMAIN diffs |-> <<PathRank(diffs[i].path), diffs[i]>>]))

CountChange(tableDiffs, change) ==
  Len(SelectSeq(tableDiffs, LAMBDA t : t.change = change))

RECURSIVE SumFieldDiffs(_)
SumFieldDiffs(tableDiffs) ==
  IF tableDiffs = <<>> THEN 0
  ELSE Len(Head(tableDiffs).fieldDiffs) + SumFieldDiffs(Tail(tableDiffs))

\* parts.join(", ")
RECURSIVE Join(_, _)
Join(parts, sep) ==
  IF parts = <<>> THEN ""
  ELSE IF Len(parts) = 1 THEN parts[1]
       ELSE parts[1] \o sep \o Join(Tail(parts), sep)

NoChangesSummary == "No schema changes detected."

\* buildSummary with the field changes of every table diff summed
buildSummary_allFieldChanges(tableDiffs) ==
  LET added == CountChange(tableDiffs, "added")
      removed == CountChange(tableDiffs, "removed")
      modified == CountChange(tableDiffs, "modified")
      totalFieldChanges == SumFieldDiffs(tableDiffs)
      parts ==
        (IF added # 0 THEN <<ToString(added) \o " table(s) added">> ELSE <<>>)
        \o (IF removed # 0 THEN <<ToString(removed) \o " table(s) removed">> ELSE <<>>)
        \o (IF modified # 0
            THEN <<ToString(modified) \o " table(s) modified ("
                   \o ToString(totalFieldChanges) \o " field changes)">>
            ELSE <<>>)
  IN IF Len(parts) = 0 THEN NoChangesSummary ELSE Join(parts, ", ") \o "."
buildSummary(tableDiffs) ==
  LET added == CountChange(tableDiffs, "added")
      removed == CountChange(tableDiffs, "removed")
      modified == CountChange(tableDiffs, "modified")
      totalFieldChanges ==
        SumFieldDiffs(SelectSeq(tableDiffs, LAMBDA t : t.change = "modified"))
      parts ==
        (IF added # 0 THEN <<ToString(added) \o " table(s) added">> ELSE <<>>)
        \o (IF removed # 0 THEN <<ToString(removed) \o " table(s) removed">> ELSE <<>>)
        \o (IF modified # 0
            THEN <<ToString(modified) \o " table(s) modified ("
                   \o ToString(totalFieldChanges) \o " field changes)">>
            ELSE <<>>)
  IN IF Len(parts) = 0 THEN NoChangesSummary ELSE Join(parts, ", ") \o "."

TableEntries(tables) == [i \in DOMAIN tables |-> <<tables[i].table, tables[i]>>]

\* "Added tables" loop
RECURSIVE AddedTables(_, _)
AddedTables(toEntries, fromTableMap) ==
  IF toEntries = <<>> THEN <<>>
  ELSE LET name == Head(toEntries)[1]
           toTable == Head(toEntries)[2]
           rest == AddedTables(Tail(toEntries), fromTableMap)
       IN IF ~MapHas(fromTableMap, name)
          THEN <<[table |-> name, change |-> "added",
                  fieldDiffs |-> [i \in DOMAIN toTable.fields |->
                     [path |-> toTable.fields[i].path, change |-> "added",
                      newTypes |-> toTable.fields[i].types]]]>> \o rest
          ELSE rest

\* the removed loop written like the added one: the types put under newTypes
RemovedTables_newTypes(fromEntries, toTableMap) ==
  LET gone == SelectSeq(fromEntries, LAMBDA en : ~MapHas(toTableMap, en[1]))
  IN [k \in DOMAIN gone |->
        [table |-> gone[k][1], change |-> "removed",
         fieldDiffs |-> [i \in DOMAIN gone[k][2].fields |->
            [path |-> gone[k][2].fields[i].path, change |-> "removed",
             newTypes |-> gone[k][2].fields[i].types]]]]

\* "Removed tables" loop
RECURSIVE RemovedTables(_, _)
RemovedTables(fromEntries, toTableMap) ==
  IF fromEntries = <<>> THEN <<>>
  ELSE LET name == Head(fromEntries)[1]
           fromTable == Head(fromEntries)[2]
           rest == RemovedTables(Tail(fromEntries), toTableMap)
       IN IF ~MapHas(toTableMap, name)
          THEN <<[table |-> name, change |-> "removed",
                  fieldDiffs |-> [i \in DOMAIN fromTable.fields |->
                     [path |-> fromTable.fields[i].path, change |-> "removed",
                      oldTypes |-> fromTable.fields[i].types]]]>> \o rest
          ELSE rest

\* if (fieldDiffs.length > 0) push the modified TableDiff
ModifiedDiff_always(name, fieldDiffs) ==
  <<[table |-> name, change |-> "modified", fieldDiffs |-> fieldDiffs]>>
ModifiedDiff(name, fieldDiffs) ==
  IF Len(fieldDiffs) > 0
  THEN <<[table |-> name, change |-> "modified", fieldDiffs |-> fieldDiffs]>>
  ELSE <<>>

\* "Modified tables" loop
RECURSIVE ModifiedTables(_, _)
ModifiedTables(fromEntries, toTableMap) ==
  IF fromEntries = <<>> THEN <<>>
  ELSE LET name == Head(fromEntries)[1]
           fromTable == Head(fromEntries)[2]
           rest == ModifiedTables(Tail(fromEntries), toTableMap)
       IN IF ~MapHas(toTableMap, name)
          THEN rest
          ELSE ModifiedDiff(name,
                 diffFields(fromTable.fields, MapGet(toTableMap, name).fields)) \o rest

\* the ranks of the order the three loops push in
ChangeOrder_asPushed(change) ==
  CASE change = "added" -> 0
    [] change = "removed" -> 1
    [] change = "modified" -> 2

\* const order = { added: 0, modified: 1, removed: 2 }
ChangeOrder(change) ==
  CASE change = "added" -> 0
    [] change = "modified" -> 1
    [] change = "removed" -> 2

computeDrift(f, t) ==
  LET fromTableMap == NewMap(TableEntries(f.tables))
      toTableMap == NewMap(TableEntries(t.tables))
      pushed == AddedTables(toTableMap, fromTableMap)
                \o RemovedTables(fromTableMap, toTableMap)
                \o ModifiedTables(fromTableMap, toTableMap)
      tableDiffs ==
        Elements(SortRanked([i \in DOMAIN pushed |-> <<ChangeOrder(pushed[i].change), pushed[i]>>]))
  IN [fromSnapshotId |-> f.id, toSnapshotId |-> t.id,
      tableDiffs |-> tableDiffs, summary |-> buildSummary(tableDiffs)]

\* The snapshots the differ is run on.  A types list is one of TypeLists
\* (two of them hold the same names in a different order); a table called
\* "tasks" has any fields list up to MaxFields, repeated paths included;
\* "users" has no field or one and "projects" has one; a snapshot has any
\* tables list up to MaxTables, repeated names included.
TypeLists == {<<"string">>, <<"number", "string">>, <<"string", "number">>}

FieldValues ==
  {[path |-> "name", types |-> ty] : ty \in TypeLists}
  \cup {[path |-> "status", types |-> <<"string">>]}

FieldLists == SeqsUpTo(FieldValues, MaxFields)

TableValues ==
  {[table |-> "tasks", fields |-> fl] : fl \in FieldLists}
  \cup {[table |-> "users", fields |-> fl] :
          fl \in {<<>>, <<[path |-> "name", types |-> <<"string">>]>>}}
  \cup {[table |-> "projects",
         fields |-> <<[path |-> "name", types |-> <<"string">>]>>]}

TableLists == SeqsUpTo(TableValues, MaxTables)

Snapshots(id) == {[id |-> id, tables |-> tl] : tl \in TableLists}

\* The differ is handed two stored snapshots: a snapshot and itself, or two
\* different ones.
InitDrift ==
  /\ from \in Snapshots("snap-1")
  /\ to \in Snapshots("snap-2") \cup {from}
  /\ drift = NoDrift
  /\ AnalyzerIdle
  /\ ImportIdle
  /\ ParserIdle
  /\ ScanIdle
  /\ InferIdle
  /\ ResolveIdle
  /\ ChainIdle
  /\ WatcherIdle

\* [...types].sort() sorts a copy: the list of the field stays as it was
TypesAfterCompare_inPlace(types) == SortedTypes(types)
TypesAfterCompare(types) == types

\* the fields of a table after diffFields has run on it and the table of the
\* same name: typesChanged is evaluated on the field the Map holds for a path
\* (the last listed) when the other Map has the path too
FieldsAfterDiff(fields, otherFields) ==
  [i \in DOMAIN fields |->
     IF /\ \A j \in DOMAIN fields : j > i => fields[j].path # fields[i].path
        /\ \E j \in DOMAIN otherFields : otherFields[j].path = fields[i].path
     THEN [fields[i] EXCEPT !.types = TypesAfterCompare(@)]
     ELSE fields[i]]

\* the tables of a snapshot after computeDrift: the modified loop hands
\* diffFields the table the Map holds for a name (the last listed) when the
\* other Map has the name too; the other loops read the tables only
TablesAfterDiff(tables, otherTables) ==
  LET otherMap == NewMap(TableEntries(otherTables))
  IN [k \in DOMAIN tables |->
        IF /\ \A j \in DOMAIN tables : j > k => tables[j].table # tables[k].table
           /\ MapHas(otherMap, tables[k].table)
        THEN [tables[k] EXCEPT
                !.fields = FieldsAfterDiff(@, MapGet(otherMap, tables[k].table).fields)]
        ELSE tables[k]]

\* the drift command: computeDrift(from, to)
Diff ==
  /\ drift = NoDrift
  /\ drift' = computeDrift(from, to)
  /\ from' = [from EXCEPT !.tables = TablesAfterDiff(@, to.tables)]
  /\ to' = [to EXCEPT !.tables = TablesAfterDiff(@, from.tables)]
  /\ UNCHANGED <<analyzerVars, importVars, parserVars, scanVars, inferVars, resolveVars, chainVars, watcherVars>>

NextDrift == Diff

SpecDrift == InitDrift /\ [][NextDrift]_vars

(***************************************************************************)
(* Properties of the drift differ.                                         *)
(***************************************************************************)
Diffed == drift # NoDrift

HasRepeatedTable(snap) ==
  \E i, j \in DOMAIN snap.tables : i # j /\ snap.tables[i].table = snap.tables[j].table

HasRepeatedPath(snap) ==
  \E k \in DOMAIN snap.tables :
    \E i, j \in DOMAIN snap.tables[k].fields :
      i # j /\ snap.tables[k].fields[i].path = snap.tables[k].fields[j].path

\* C1 (drift identity): diffing a snapshot against itself, repeated table
\* names and repeated field paths included, returns no table diffs and the
\* fixed no-changes summary.
C1_DriftIdentity ==
  (Diffed /\ from = to) =>
    (drift.tableDiffs = <<>> /\ drift.summary = "No schema changes detected.")

C1_Witness ==
  /\ Diffed
  /\ from = to
  /\ HasRepeatedTable(from)
  /\ HasRepeatedPath(from)
  /\ \E k \in DOMAIN from.tables : \E i \in DOMAIN from.tables[k].fields :
       Len(from.tables[k].fields[i].types) = 2

\* <<table, path>> of every field diff of kind `change` in a drift result
FieldReports(d, change) ==
  UNION {{<<td.table, td.fieldDiffs[i].path>> :
            i \in {i \in DOMAIN td.fieldDiffs : td.fieldDiffs[i].change = change}} :
         td \in Range(d.tableDiffs)}

\* table names of every table diff of kind `change` in a drift result
TableReports(d, change) ==
  {d.tableDiffs[k].table : k \in {k \in DOMAIN d.tableDiffs : d.tableDiffs[k].change = change}}

\* <<table, path, oldTypes, newTypes>> of every type_changed field diff
TypeChangeReports(d) ==
  UNION {{<<td.table, td.fieldDiffs[i].path,
            td.fieldDiffs[i].oldTypes, td.fieldDiffs[i].newTypes>> :
            i \in {i \in DOMAIN td.fieldDiffs : td.fieldDiffs[i].change = "type_changed"}} :
         td \in Range(d.tableDiffs)}

\* C2 (symmetry of classification): a table and path is reported added from
\* `from` to `to` iff it is reported removed from `to` to `from`, a table is
\* added one way iff it is removed the other way, and a path is type_changed
\* one way iff it is type_changed the other way with old and new types swapped.
C2_DriftSymmetry ==
  Diffed =>
    LET back == computeDrift(to, from)
    IN /\ FieldReports(drift, "added") = FieldReports(back, "removed")
       /\ FieldReports(drift, "removed") = FieldReports(back, "added")
       /\ TableReports(drift, "added") = TableReports(back, "removed")
       /\ TableReports(drift, "removed") = TableReports(back, "added")
       /\ TypeChangeReports(drift) = {<<r[1], r[2], r[4], r[3]>> : r \in TypeChangeReports(back)}

C2_Witness ==
  /\ Diffed
  /\ TableReports(drift, "added") # {}
  /\ TableReports(drift, "modified") # {}
  /\ \E r \in FieldReports(drift, "added") : r[1] \in TableReports(drift, "modified")
  /\ TypeChangeReports(drift) # {}

\* the types lists recorded for path p of table n in a snapshot
TypesOf(snap, n, p) ==
  LET t == snap.tables[CHOOSE k \in DOMAIN snap.tables : snap.tables[k].table = n]
  IN t.fields[CHOOSE i \in DOMAIN t.fields : t.fields[i].path = p].types

\* table n is listed once in the snapshot, and path p once in that table
ListedOnce(snap, n, p) ==
  /\ Cardinality({k \in DOMAIN snap.tables : snap.tables[k].table = n}) = 1
  /\ LET t == snap.tables[CHOOSE k \in DOMAIN snap.tables : snap.tables[k].table = n]
     IN Cardinality({i \in DOMAIN t.fields : t.fields[i].path = p}) = 1

Occurrences(s, e) == Cardinality({i \in DOMAIN s : s[i] = e})

SameElementsOtherOrder(x, y) ==
  /\ x # y
  /\ Len(x) = Len(y)
  /\ \A e \in Range(x) \cup Range(y) : Occurrences(x, e) = Occurrences(y, e)

AllFieldReports(d) ==
  FieldReports(d, "added") \cup FieldReports(d, "removed")
    \cup FieldReports(d, "type_changed")

\* C3 (type-set order independence): a path that both snapshots hold for the
\* same table with the same type names in a different order gets no field
\* diff at all.
C3_TypeOrderIndependent ==
  Diffed =>
    \A n \in {"tasks", "users"}, p \in {"name", "status"} :
      (/\ ListedOnce(from, n, p)
       /\ ListedOnce(to, n, p)
       /\ SameElementsOtherOrder(TypesOf(from, n, p), TypesOf(to, n, p)))
        => <<n, p>> \notin AllFieldReports(drift)

C3_Witness ==
  /\ Diffed
  /\ ListedOnce(from, "tasks", "name")
  /\ ListedOnce(to, "tasks", "name")
  /\ TypesOf(from, "tasks", "name") = <<"number", "string">>
  /\ TypesOf(to, "tasks", "name") = <<"string", "number">>
  /\ TableReports(drift, "modified") = {"tasks"}

(***************************************************************************)
(* Index coverage analyzer: src/unnamed/part_012                           *)
(***************************************************************************)
\* const list = map.get(idx.table) ?? []; list.push(idx); map.set(idx.table, list)
RECURSIVE buildIndexMap(_)
buildIndexMap(indexes) ==
  IF indexes = <<>> THEN <<>>
  ELSE LET map == buildIndexMap(SubSeq(indexes, 1, Len(indexes) - 1))
           idx == indexes[Len(indexes)]
           list == IF MapHas(map, idx.table) THEN MapGet(map, idx.table) ELSE <<>>
       IN MapSet(map, idx.table, Append(list, idx))

\* `${usage.filePath}:${usage.line}`
FunctionPath(u) == u.filePath \o ":" \o ToString(u.line)

\* Rule 1: query without .withIndex()
Rule1_noElse(u, tableIndexes) ==
  (IF u.hasCollect
   THEN <<[functionPath |-> FunctionPath(u), table |-> u.tableName, severity |-> "high",
           message |-> "Full table scan: db.query(\"" \o u.tableName
                       \o "\").collect() without an index. This reads every document.",
           suggestedIndex |->
             IF Len(tableIndexes) > 0
             THEN "Consider .withIndex(\"" \o tableIndexes[1].name \o "\")"
             ELSE "Add an index to \"" \o u.tableName
                  \o "\" for the fields being queried."]>>
   ELSE <<>>)
  \o (IF u.hasFilter
      THEN <<[functionPath |-> FunctionPath(u), table |-> u.tableName,
              severity |-> "medium",
              message |-> "Query uses .filter() without .withIndex(). Filter runs in-memory after scanning.",
              suggestedIndex |-> "Move filter conditions into a .withIndex() for server-side filtering."]>>
      ELSE <<>>)
Rule1(u, tableIndexes) ==
  IF u.hasCollect
  THEN <<[functionPath |-> FunctionPath(u), table |-> u.tableName, severity |-> "high",
          message |-> "Full table scan: db.query(\"" \o u.tableName
                      \o "\").collect() without an index. This reads every document.",
          suggestedIndex |->
            IF Len(tableIndexes) > 0
            THEN "Consider .withIndex(\"" \o tableIndexes[1].name \o "\")"
            ELSE "Add an index to \"" \o u.tableName
                 \o "\" for the fields being queried."]>>
  ELSE IF u.hasFilter
       THEN <<[functionPath |-> FunctionPath(u), table |-> u.tableName,
               severity |-> "medium",
               message |-> "Query uses .filter() without .withIndex(). Filter runs in-memory after scanning.",
               suggestedIndex |-> "Move filter conditions into a .withIndex() for server-side filtering."]>>
       ELSE <<>>

\* Rule 2: the referenced index does not exist
Rule2(u) ==
  <<[functionPath |-> FunctionPath(u), table |-> u.tableName, severity |-> "high",
     message |-> "Index \"" \o u.indexName[1] \o "\" referenced but not defined on table \""
                 \o u.tableName \o "\".",
     suggestedIndex |-> "Define .index(\"" \o u.indexName[1] \o "\", [...]) in schema.ts."]>>

\* Rule 3: collect without bounds after withIndex
Rule3(u) ==
  IF u.hasCollect /\ u.rangeFieldCount = 0
  THEN <<[functionPath |-> FunctionPath(u), table |-> u.tableName, severity |-> "medium",
          message |-> "Query uses .withIndex(\"" \o u.indexName[1]
                      \o "\") but no range constraints. This scans the full index.",
          suggestedIndex |-> "Add .eq(), .lt(), .gt() etc. in the index range callback."]>>
  ELSE <<>>

\* Rule 4 taken only when Rule 3 did not fire
Rule4_unlessRule3(u) ==
  IF u.hasFilter /\ ~(u.hasCollect /\ u.rangeFieldCount = 0)
  THEN <<[functionPath |-> FunctionPath(u), table |-> u.tableName, severity |-> "low",
          message |-> "Query uses .filter() after .withIndex(\"" \o u.indexName[1]
                      \o "\"). Consider extending the index to cover filter fields."]>>
  ELSE <<>>

\* Rule 4: .filter() used alongside .withIndex()
Rule4(u) ==
  IF u.hasFilter
  THEN <<[functionPath |-> FunctionPath(u), table |-> u.tableName, severity |-> "low",
          message |-> "Query uses .filter() after .withIndex(\"" \o u.indexName[1]
                      \o "\"). Consider extending the index to cover filter fields."]>>
  ELSE <<>>

\* indexMap.get(usage.tableName) ?? []
TableIndexes_anyTable(indexMap, tableName) ==
  IF indexMap = <<>> THEN <<>> ELSE indexMap[1][2]
TableIndexes(indexMap, tableName) ==
  IF MapHas(indexMap, tableName) THEN MapGet(indexMap, tableName) ELSE <<>>

\* A usage's indexName is <<>> for null and <<name>> for a referenced index.
evaluateUsage(u, indexMap) ==
  LET tableIndexes == TableIndexes(indexMap, u.tableName)
  IN IF u.indexName = <<>>
     THEN Rule1(u, tableIndexes)
     ELSE IF ~\E i \in DOMAIN tableIndexes : tableIndexes[i].name = u.indexName[1]
          THEN Rule2(u)
          ELSE Rule3(u) \o Rule4(u)

\* The usages and known indexes the analyzer is run on.
AnalyzerTables == {"tasks", "users"}

IndexValues ==
  {[table |-> t, name |-> "by_project", fields |-> <<"projectId", "status">>,
    type |-> "by_field"] : t \in AnalyzerTables}
  \cup {[table |-> t, name |-> "by_status", fields |-> <<"status">>,
         type |-> "by_field"] : t \in AnalyzerTables}

UsageValues ==
  [filePath : {"convex/tasks.ts"}, line : {9}, tableName : AnalyzerTables,
   indexName : {<<>>, <<"by_project">>, <<"by_due_date">>},
   hasCollect : BOOLEAN, hasTake : BOOLEAN, hasFirst : BOOLEAN, hasFilter : BOOLEAN,
   rangeFieldCount : 0..MaxRangeOps]

InitAnalyzer ==
  /\ usage \in UsageValues
  /\ knownIndexes \in SeqsUpTo(IndexValues, MaxIndexes)
  /\ coverage = NoCoverage
  /\ DriftIdle
  /\ ImportIdle
  /\ ParserIdle
  /\ ScanIdle
  /\ InferIdle
  /\ ResolveIdle
  /\ ChainIdle
  /\ WatcherIdle

\* one pass of the loop body of analyzeIndexCoverage over the usage
Evaluate ==
  /\ coverage = NoCoverage
  /\ coverage' = [issues |-> evaluateUsage(usage, buildIndexMap(knownIndexes))]
  /\ UNCHANGED <<usage, knownIndexes>>
  /\ UNCHANGED <<driftVars, importVars, parserVars, scanVars, inferVars, resolveVars, chainVars, watcherVars>>

NextAnalyzer == Evaluate

SpecAnalyzer == InitAnalyzer /\ [][NextAnalyzer]_vars

(***************************************************************************)
(* Properties of the index coverage analyzer.                              *)
(***************************************************************************)
Evaluated == coverage # NoCoverage

\* positions in knownIndexes of the indexes of the usage's own table
OwnIndexes == {i \in DOMAIN knownIndexes : knownIndexes[i].table = usage.tableName}

FirstOwnIndex == knownIndexes[CHOOSE i \in OwnIndexes : \A j \in OwnIndexes : i <= j]

\* C9 (no index referenced): a .collect() usage yields exactly one high issue
\* naming the usage's table, whose suggestion names the first known index of
\* that table if it has one; otherwise a .filter() usage yields exactly one
\* medium issue; otherwise no issue.
C9_NoIndexReferenced ==
  (Evaluated /\ usage.indexName = <<>>) =>
    LET issues == coverage.issues
    IN IF usage.hasCollect
       THEN /\ Len(issues) = 1
            /\ issues[1].severity = "high"
            /\ issues[1].table = usage.tableName
            /\ OwnIndexes # {} =>
                 issues[1].suggestedIndex =
                   "Consider .withIndex(\"" \o FirstOwnIndex.name \o "\")"
       ELSE IF usage.hasFilter
            THEN Len(issues) = 1 /\ issues[1].severity = "medium"
            ELSE issues = <<>>

C9_Witness ==
  /\ Evaluated
  /\ usage.indexName = <<>>
  /\ usage.tableName = "tasks"
  /\ usage.hasCollect
  /\ usage.hasFilter
  /\ Len(knownIndexes) = 2
  /\ knownIndexes[1].table = "users"
  /\ knownIndexes[2] = [table |-> "tasks", name |-> "by_project",
                        fields |-> <<"projectId", "status">>, type |-> "by_field"]
  /\ coverage.issues[1].suggestedIndex = "Consider .withIndex(\"by_project\")"

\* C10 (undefined index): a usage that references an index name none of the
\* known indexes of its own table has yields exactly one issue, high, with the
\* "not defined" message, whatever its terminal, filter stage and range count.
C10_UndefinedIndex ==
  (/\ Evaluated
   /\ usage.indexName # <<>>
   /\ \A i \in OwnIndexes : knownIndexes[i].name # usage.indexName[1]) =>
    /\ Len(coverage.issues) = 1
    /\ coverage.issues[1].severity = "high"
    /\ coverage.issues[1].table = usage.tableName
    /\ coverage.issues[1].message =
         "Index \"" \o usage.indexName[1] \o "\" referenced but not defined on table \""
           \o usage.tableName \o "\"."

C10_Witness ==
  /\ Evaluated
  /\ usage.indexName = <<"by_project">>
  /\ usage.tableName = "tasks"
  /\ usage.hasCollect
  /\ usage.hasFilter
  /\ usage.rangeFieldCount = 0
  /\ \E i \in DOMAIN knownIndexes :
       knownIndexes[i].table = "users" /\ knownIndexes[i].name = "by_project"
  /\ OwnIndexes # {}
  /\ Len(coverage.issues) = 1

\* the issues of one severity, in the order they are listed
OfSeverity(issues, severity) == SelectSeq(issues, LAMBDA x : x.severity = severity)

\* C11 (defined index): for a usage whose referenced index is defined on its
\* table, a medium issue is emitted iff the usage has .collect and no range
\* or equality constraint, and a low issue iff it has a .filter stage; each
\* at most once, independently of the other, and nothing else is emitted.
C11_DefinedIndex ==
  (/\ Evaluated
   /\ usage.indexName # <<>>
   /\ \E i \in OwnIndexes : knownIndexes[i].name = usage.indexName[1]) =>
    LET issues == coverage.issues
        scansIndex == usage.hasCollect /\ usage.rangeFieldCount = 0
    IN /\ Len(OfSeverity(issues, "medium")) = (IF scansIndex THEN 1 ELSE 0)
       /\ Len(OfSeverity(issues, "low")) = (IF usage.hasFilter THEN 1 ELSE 0)
       /\ OfSeverity(issues, "high") = <<>>
       /\ \A i \in DOMAIN issues : issues[i].table = usage.tableName

C11_Witness ==
  /\ Evaluated
  /\ usage.indexName = <<"by_project">>
  /\ usage.tableName = "tasks"
  /\ \E i \in OwnIndexes : knownIndexes[i].name = "by_project"
  /\ usage.hasCollect
  /\ usage.hasFilter
  /\ usage.rangeFieldCount = 0
  /\ Len(coverage.issues) = 2
  /\ coverage.issues[1].severity = "medium"
  /\ coverage.issues[2].severity = "low"

(***************************************************************************)
(* Schema parser, import following: src/src/schema/schemaParser.ts         *)
(*                                                                         *)
(* A uri is the sequence of its path segments.  A file's content is the    *)
(* sequence of its statements; the empty sequence is the empty string.     *)
(* A statement is an import or a re-export of a relative module "./arg",   *)
(* or a table definition named arg.                                        *)
(***************************************************************************)
Stmt(kind, arg) == [kind |-> kind, arg |-> arg]

\* matches of /from\s+["']\.\/([^"']+)["']/g: every statement with a
\* relative from-clause, that is imports and re-exports alike
RECURSIVE importPattern(_)
importPattern(content) ==
  IF content = <<>> THEN <<>>
  ELSE (IF Head(content).kind \in {"import", "exportNamed", "exportStar"}
        THEN <<Head(content).arg>> ELSE <<>>) \o importPattern(Tail(content))

\* matches of /(?:export\s+\{[^}]*\}\s+from|export\s+\*\s+from)\s+["']\.\/([^"']+)["']/g
RECURSIVE reExportPattern(_)
reExportPattern(content) ==
  IF content = <<>> THEN <<>>
  ELSE (IF Head(content).kind \in {"exportNamed", "exportStar"}
        THEN <<Head(content).arg>> ELSE <<>>) \o reExportPattern(Tail(content))

\* the table definitions parseSourceFile finds in a source
RECURSIVE TablesOf(_)
TablesOf(content) ==
  IF content = <<>> THEN <<>>
  ELSE (IF Head(content).kind = "table" THEN <<Head(content).arg>> ELSE <<>>)
       \o TablesOf(Tail(content))

\* new Set<string>() filled by add(): first occurrences, in insertion order
RECURSIVE SetOrder(_)
SetOrder(items) ==
  IF items = <<>> THEN <<>>
  ELSE LET init == SetOrder(SubSeq(items, 1, Len(items) - 1))
           last == items[Len(items)]
       IN IF last \in Range(init) THEN init ELSE Append(init, last)

\* vscode.Uri.joinPath(uri, "..")
DirOf(uri) == SubSeq(uri, 1, Len(uri) - 1)

\* the candidates of collectAllSources for an import path
ImportCandidates(dir, importPath) ==
  <<dir \o <<importPath, "index.ts">>,
    dir \o <<importPath, "index.js">>,
    dir \o <<importPath \o ".ts">>,
    dir \o <<importPath \o ".js">>>>

\* the candidates of followReExports for a module name
ReExportCandidates(dir, moduleName) ==
  <<dir \o <<moduleName \o ".ts">>,
    dir \o <<moduleName \o ".js">>,
    dir \o <<moduleName, "index.ts">>>>

\* readFileContent: <<content>>, or <<>> for null when the read throws
readFileContent(files, uri) ==
  IF uri \in DOMAIN files /\ files[uri].readable THEN <<files[uri].content>> ELSE <<>>

\* if (content): null and the empty string are falsy
Truthy(read) == read # <<>> /\ read[1] # <<>>

\* `break` after the first candidate with content: no candidate is left to try
AfterHit_noBreak(candidates) == Tail(candidates)
AfterHit(candidates) == <<>>

SchemaUri == <<"convex", "schema.ts">>

\* findSchemaFile: the schema file of the workspace, or <<>> for null
findSchemaFile(files) ==
  IF SchemaUri \in DOMAIN files /\ files[SchemaUri].exists THEN <<SchemaUri>> ELSE <<>>

StartWalk ==
  [pc |-> "start", sources |-> <<>>, importPaths |-> <<>>, candidates |-> <<>>,
   indexUri |-> <<>>, indexContent |-> <<>>, matches |-> <<>>, reCandidates |-> <<>>,
   reSources |-> <<>>, reads |-> 0, parsed |-> 0, tables |-> <<>>]

\* The workspaces parsed: the entry convex/schema.ts, missing, unreadable,
\* empty, or up to MaxImports imports of ./a and ./b followed by a table; and
\* three files an import or a re-export can resolve to, each unreadable or
\* holding up to MaxStatements re-exports of ./a, ./b and table definitions.
Unreadable == [exists |-> TRUE, readable |-> FALSE, content |-> <<>>]
Missing == [exists |-> FALSE, readable |-> FALSE, content |-> <<>>]
File(content) == [exists |-> TRUE, readable |-> TRUE, content |-> content]

EntryFiles ==
  {Missing, Unreadable, File(<<>>)}
  \cup {File(imports \o <<Stmt("table", "tasks")>>) :
          imports \in SeqsUpTo({Stmt("import", "a"), Stmt("import", "b")}, MaxImports)}

ImportedFiles ==
  {Unreadable}
  \cup {File(c) : c \in SeqsUpTo({Stmt("table", "users"), Stmt("exportStar", "a"),
                                  Stmt("exportNamed", "b")}, MaxStatements)}

ImportedUris == {<<"convex", "a.ts">>, <<"convex", "b.ts">>, <<"convex", "a", "index.ts">>}

InitImports ==
  /\ \E entry \in EntryFiles : \E others \in [ImportedUris -> ImportedFiles] :
       fs = [u \in ImportedUris \cup {SchemaUri} |->
               IF u = SchemaUri THEN entry ELSE others[u]]
  /\ walk = StartWalk
  /\ DriftIdle
  /\ AnalyzerIdle
  /\ ParserIdle
  /\ ScanIdle
  /\ InferIdle
  /\ ResolveIdle
  /\ ChainIdle
  /\ WatcherIdle

\* parseConvexSchema up to the call of collectAllSources, and the head of
\* collectAllSources: find and read the schema file, collect its import paths
ReadSchema ==
  /\ walk.pc = "start"
  /\ LET schemaFile == findSchemaFile(fs)
         schemaContent == readFileContent(fs, SchemaUri)
     IN IF schemaFile = <<>>
        THEN walk' = [walk EXCEPT !.pc = "done"]
        ELSE IF ~Truthy(schemaContent)
             THEN walk' = [walk EXCEPT !.pc = "done", !.reads = @ + 1]
             ELSE walk' = [walk EXCEPT !.pc = "imports", !.reads = @ + 1,
                                       !.sources = <<schemaContent[1]>>,
                                       !.importPaths = SetOrder(importPattern(schemaContent[1]))]
  /\ UNCHANGED <<fs, driftVars, analyzerVars, parserVars, scanVars, inferVars, resolveVars, chainVars, watcherVars>>

\* for (const importPath of importPaths): the next import path, or the end
NextImport ==
  /\ walk.pc = "imports"
  /\ IF walk.importPaths = <<>>
     THEN walk' = [walk EXCEPT !.pc = "parse"]
     ELSE walk' = [walk EXCEPT !.pc = "candidates",
                               !.candidates = ImportCandidates(DirOf(SchemaUri),
                                                               Head(walk.importPaths)),
                               !.importPaths = Tail(@)]
  /\ UNCHANGED <<fs, driftVars, analyzerVars, parserVars, scanVars, inferVars, resolveVars, chainVars, watcherVars>>

\* for (const candidate of candidates): read it, enter followReExports on content
TryCandidate ==
  /\ walk.pc = "candidates"
  /\ IF walk.candidates = <<>>
     THEN walk' = [walk EXCEPT !.pc = "imports"]
     ELSE LET candidate == Head(walk.candidates)
              content == readFileContent(fs, candidate)
          IN IF Truthy(content)
             THEN walk' = [walk EXCEPT !.pc = "reexports", !.reads = @ + 1,
                                       !.indexUri = candidate,
                                       !.indexContent = content[1],
                                       !.matches = reExportPattern(content[1]),
                                       !.reSources = <<>>,
                                       !.candidates = AfterHit(@)]
             ELSE walk' = [walk EXCEPT !.reads = @ + 1, !.candidates = Tail(@)]
  /\ UNCHANGED <<fs, driftVars, analyzerVars, parserVars, scanVars, inferVars, resolveVars, chainVars, watcherVars>>

\* while ((match = reExportPattern.exec(indexContent)) !== null): the next
\* re-export, or the end of followReExports and sources.push(...reExports)
NextReExport ==
  /\ walk.pc = "reexports"
  /\ IF walk.matches = <<>>
     THEN walk' = [walk EXCEPT !.pc = "candidates",
                               !.sources = @ \o (IF walk.reSources = <<>>
                                                 THEN <<walk.indexContent>>
                                                 ELSE walk.reSources)]
     ELSE walk' = [walk EXCEPT !.pc = "recandidates",
                               !.reCandidates = ReExportCandidates(DirOf(walk.indexUri),
                                                                   Head(walk.matches)),
                               !.matches = Tail(@)]
  /\ UNCHANGED <<fs, driftVars, analyzerVars, parserVars, scanVars, inferVars, resolveVars, chainVars, watcherVars>>

\* for (const candidate of candidates) of followReExports: read it, push content
TryReExportCandidate ==
  /\ walk.pc = "recandidates"
  /\ IF walk.reCandidates = <<>>
     THEN walk' = [walk EXCEPT !.pc = "reexports"]
     ELSE LET content == readFileContent(fs, Head(walk.reCandidates))
          IN IF Truthy(content)
             THEN walk' = [walk EXCEPT !.reads = @ + 1,
                                       !.reSources = Append(@, content[1]),
                                       !.reCandidates = AfterHit(@)]
             ELSE walk' = [walk EXCEPT !.reads = @ + 1, !.reCandidates = Tail(@)]
  /\ UNCHANGED <<fs, driftVars, analyzerVars, parserVars, scanVars, inferVars, resolveVars, chainVars, watcherVars>>

\* for (const source of allSources): parseSourceFile(source), then return
ParseSource ==
  /\ walk.pc = "parse"
  /\ IF walk.parsed < Len(walk.sources)
     THEN walk' = [walk EXCEPT !.parsed = @ + 1,
                               !.tables = @ \o TablesOf(walk.sources[walk.parsed + 1])]
     ELSE walk' = [walk EXCEPT !.pc = "done"]
  /\ UNCHANGED <<fs, driftVars, analyzerVars, parserVars, scanVars, inferVars, resolveVars, chainVars, watcherVars>>

NextImports ==
  \/ ReadSchema
  \/ NextImport
  \/ TryCandidate
  \/ NextReExport
  \/ TryReExportCandidate
  \/ ParseSource

SpecImports == InitImports /\ [][NextImports]_vars

\* The extension host runs every continuation of the async walk: a file read
\* settles and the walk goes on.
SpecImportsFair == SpecImports /\ WF_vars(NextImports)

(***************************************************************************)
(* Properties of import following.                                         *)
(***************************************************************************)
\* import and re-export statements of the entry file
EntryImportCount == Len(importPattern(fs[SchemaUri].content))

\* the file an import path of the entry resolves to: its first candidate
\* that holds content, <<>> if none does
Resolved(importPath) ==
  LET cands == ImportCandidates(DirOf(SchemaUri), importPath)
      hits == {i \in DOMAIN cands : Truthy(readFileContent(fs, cands[i]))}
  IN IF hits = {} THEN <<>> ELSE <<cands[CHOOSE i \in hits : \A j \in hits : i <= j]>>

DirectlyImported ==
  UNION {Range(Resolved(p)) : p \in Range(importPattern(fs[SchemaUri].content))}

RECURSIVE SumOver(_, _)
SumOver(S, f) ==
  IF S = {} THEN 0
  ELSE LET x == CHOOSE x \in S : TRUE IN f[x] + SumOver(S \ {x}, f)

\* re-export statements of the directly imported files
ReExportCount ==
  SumOver(DirectlyImported, [u \in DirectlyImported |-> Len(reExportPattern(fs[u].content))])

\* at most 1 read of the entry, 4 candidate reads an import, 3 a re-export;
\* at most 1 parse of the entry, 1 an import, 1 a re-export
WalkBounded ==
  /\ walk.reads <= 1 + 4 * EntryImportCount + 3 * ReExportCount
  /\ Len(walk.sources) <= 1 + EntryImportCount + ReExportCount
  /\ walk.parsed <= Len(walk.sources)

\* C8 (parser termination): on every workspace, files that import and
\* re-export each other in a cycle included, parseConvexSchema returns, and
\* its file reads and source parses stay within a bound linear in the number
\* of import and re-export statements of the entry file and of the files it
\* directly imports.
C8_ParserTerminates == <>(walk.pc = "done") /\ []WalkBounded

\* entry imports ./a, a.ts re-exports ./b, b.ts re-exports ./a
C8_Witness ==
  /\ walk.pc = "done"
  /\ fs[SchemaUri].content = <<Stmt("import", "a"), Stmt("table", "tasks")>>
  /\ ~fs[<<"convex", "a", "index.ts">>].readable
  /\ fs[<<"convex", "a.ts">>].content = <<Stmt("exportNamed", "b")>>
  /\ fs[<<"convex", "b.ts">>].content = <<Stmt("exportStar", "a")>>
  /\ walk.reads = 5
  /\ walk.parsed = 2

(***************************************************************************)
(* Regular expressions of the parser.                                      *)
(*                                                                         *)
(* A text is the sequence of its lexemes: a word (a maximal run of \w      *)
(* characters), a run of blanks " ", a line break "\n", or one punctuation *)
(* character.  A regular expression is kept as its syntax tree and matched *)
(* by backtracking in the order of ECMAScript: alternatives left to right, *)
(* a greedy star the longest first, a lazy star the shortest first; \w+ is *)
(* one word lexeme, and a literal such as defineTable is that word.        *)
(***************************************************************************)
Quote == "\""

NonWordLexemes ==
  {":", "(", ")", "{", "}", "[", "]", ",", ".", ";", "=", ">", "*", "'", Quote, " ",
   "\n"}

\* identifiers the fourth group of fieldPattern matches:
\* \w+Validator | \w+Status\w* | \w+Type\w* | \w+Role\w*
CustomValidatorNames == {"userRoleValidator", "taskStatus"}

InClass(c, t) ==
  CASE c = "w" -> t \notin NonWordLexemes
    [] c = "s" -> t \in {" ", "\n"}
    [] c = "any" -> TRUE
    [] c = "quote" -> t \in {Quote, "'"}
    [] c = "notQuote" -> t \notin {Quote, "'"}
    [] c = "notRParen" -> t # ")"
    [] c = "notRBracket" -> t # "]"
    [] c = "notRBrace" -> t # "}"
    [] c = "custom" -> t \in CustomValidatorNames

Tok(t) == [op |-> "tok", t |-> t]
Class(c) == [op |-> "class", c |-> c]
Cat(xs) == [op |-> "seq", xs |-> xs]
Alt(xs) == [op |-> "alt", xs |-> xs]
Star(x) == [op |-> "star", x |-> x]
Lazy(x) == [op |-> "lazy", x |-> x]
Group(n, x) == [op |-> "group", n |-> n, x |-> x]
LookAhead(x) == [op |-> "look", x |-> x]
Bol == [op |-> "bol"]
Eol == [op |-> "eol"]
Plus(x) == Cat(<<x, Star(x)>>)
Opt(x) == Alt(<<x, Cat(<<>>)>>)
Word == Class("w")
Ws == Star(Class("s"))
Ws1 == Plus(Class("s"))
Q == Class("quote")

NoMatch == [ok |-> FALSE]

\* the groups of a match not yet begun: all undefined
NoGroups == [n \in 1..4 |-> <<>>]

MinOf(S) == CHOOSE x \in S : \A y \in S : x <= y

\* how many lexemes from position i on are in class c
RunLength(text, c, i) ==
  LET stops == {j \in i..Len(text) : ~InClass(c, text[j])}
  IN IF stops = {} THEN Len(text) + 1 - i ELSE MinOf(stops) - i

\* Match the pending expressions `todo` at position i of text: the first
\* match in backtracking order, or NoMatch.  A run of one class is tried
\* longest first when greedy (TryGreedy) and shortest first when lazy.
RECURSIVE Match(_, _, _, _)
RECURSIVE TryGreedy(_, _, _, _, _)
TryGreedy(text, rest, i, k, groups) ==
  LET m == Match(text, rest, i + k, groups)
  IN IF m.ok THEN m
     ELSE IF k = 0 THEN NoMatch ELSE TryGreedy(text, rest, i, k - 1, groups)

Match(text, todo, i, groups) ==
  IF todo = <<>> THEN [ok |-> TRUE, end |-> i, groups |-> groups]
  ELSE
    LET r == Head(todo)
        rest == Tail(todo)
    IN CASE r.op = "tok" ->
              IF i <= Len(text) /\ text[i] = r.t
              THEN Match(text, rest, i + 1, groups) ELSE NoMatch
         [] r.op = "class" ->
              IF i <= Len(text) /\ InClass(r.c, text[i])
              THEN Match(text, rest, i + 1, groups) ELSE NoMatch
         [] r.op = "seq" -> Match(text, r.xs \o rest, i, groups)
         [] r.op = "alt" ->
              IF r.xs = <<>> THEN NoMatch
              ELSE LET first == Match(text, <<Head(r.xs)>> \o rest, i, groups)
                   IN IF first.ok THEN first
                      ELSE Match(text, <<Alt(Tail(r.xs))>> \o rest, i, groups)
         [] r.op = "star" ->
              IF r.x.op = "class"
              THEN TryGreedy(text, rest, i, RunLength(text, r.x.c, i), groups)
              ELSE LET more == Match(text, <<r.x, r>> \o rest, i, groups)
                   IN IF more.ok THEN more ELSE Match(text, rest, i, groups)
         [] r.op = "lazy" ->
              LET ks == {k \in 0..RunLength(text, r.x.c, i) :
                           Match(text, rest, i + k, groups).ok}
              IN IF ks = {} THEN NoMatch ELSE Match(text, rest, i + MinOf(ks), groups)
         [] r.op = "group" ->
              Match(text, <<r.x, [op |-> "endgroup", n |-> r.n, start |-> i]>> \o rest,
                    i, groups)
         [] r.op = "endgroup" ->
              Match(text, rest, i, [groups EXCEPT ![r.n] = <<SubSeq(text, r.start, i - 1)>>])
         [] r.op = "look" ->
              IF Match(text, <<r.x>>, i, groups).ok
              THEN Match(text, rest, i, groups) ELSE NoMatch
         [] r.op = "bol" -> IF i = 1 THEN Match(text, rest, i, groups) ELSE NoMatch
         [] r.op = "eol" ->
              IF i = Len(text) + 1 THEN Match(text, rest, i, groups) ELSE NoMatch

\* RegExp.prototype.exec with lastIndex = start: the leftmost match at or
\* after start, as [ok, index, end, groups]; a group is <<>> when undefined
\* and <<lexemes>> when it took part.
Exec(text, re, start) ==
  LET starts == {s \in start..(Len(text) + 1) : Match(text, <<re>>, s, NoGroups).ok}
  IN IF starts = {} THEN NoMatch
     ELSE LET index == MinOf(starts)
              m == Match(text, <<re>>, index, NoGroups)
          IN [ok |-> TRUE, index |-> index, end |-> m.end, groups |-> m.groups]

\* the text of a sequence of lexemes
RECURSIVE Text(_)
Text(lexemes) == IF lexemes = <<>> THEN "" ELSE Head(lexemes) \o Text(Tail(lexemes))

\* .replace(/["']/g, "")
StripQuotes(lexemes) == SelectSeq(lexemes, LAMBDA t : t \notin {Quote, "'"})

\* String.prototype.trim
RECURSIVE TrimStart(_)
TrimStart(lexemes) ==
  IF lexemes # <<>> /\ Head(lexemes) \in {" ", "\n"} THEN TrimStart(Tail(lexemes))
  ELSE lexemes

RECURSIVE TrimEnd(_)
TrimEnd(lexemes) ==
  IF lexemes # <<>> /\ lexemes[Len(lexemes)] \in {" ", "\n"}
  THEN TrimEnd(SubSeq(lexemes, 1, Len(lexemes) - 1))
  ELSE lexemes

Trim(lexemes) == TrimEnd(TrimStart(lexemes))

\* String.prototype.split(","): the pieces between the commas
RECURSIVE SplitComma(_, _)
SplitComma(lexemes, piece) ==
  IF lexemes = <<>> THEN <<piece>>
  ELSE IF Head(lexemes) = "," THEN <<piece>> \o SplitComma(Tail(lexemes), <<>>)
       ELSE SplitComma(Tail(lexemes), Append(piece, Head(lexemes)))

(***************************************************************************)
(* analyzeIndexCoverage over the query files: src/unnamed/part_012         *)
(*                                                                         *)
(* A file's content is null or a string, held as the sequence of its lines *)
(* (content.split("\n")); a line is a text, the sequence of its lexemes.   *)
(***************************************************************************)
NullContent == [null |-> TRUE, lines |-> <<>>]

Content(lines) == [null |-> FALSE, lines |-> lines]

BlankLine == <<>>

\* the empty string is the one empty line
IsFalsy(content) == content.null \/ content.lines = <<BlankLine>>

\* /(?:ctx|context)\.db\.query\s*\(\s*["'](\w+)["']\s*\)/
queryPattern ==
  Cat(<<Alt(<<Tok("ctx"), Tok("context")>>), Tok("."), Tok("db"), Tok("."), Tok("query"),
        Ws, Tok("("), Ws, Q, Group(1, Word), Q, Ws, Tok(")")>>)

\* /[;]\s*$/
semicolonEnd == Cat(<<Tok(";"), Ws, Eol>>)

\* /\)\s*;?\s*$/
parenEnd == Cat(<<Tok(")"), Ws, Opt(Tok(";")), Ws, Eol>>)

\* /\.withIndex\s*\(\s*["'](\w+)["']/
withIndexPattern ==
  Cat(<<Tok("."), Tok("withIndex"), Ws, Tok("("), Ws, Q, Group(1, Word), Q>>)

\* /\.(?:eq|lt|gt|lte|gte)\s*\(/g
rangeOpPattern ==
  Cat(<<Tok("."), Alt(<<Tok("eq"), Tok("lt"), Tok("gt"), Tok("lte"), Tok("gte")>>),
        Ws, Tok("(")>>)

\* /\.collect\s*\(/, /\.take\s*\(/, /\.first\s*\(/, /\.filter\s*\(/
callPattern(name) == Cat(<<Tok("."), Tok(name), Ws, Tok("(")>>)

\* for (let j = i; j < Math.min(i + 10, lines.length); j++)
ChainWindow == 10

\* the chain gathered from line j up to line stop: chain += lines[j], with a
\* break after a line that ends in a semicolon or in a closing parenthesis
RECURSIVE gatherChain(_, _, _)
gatherChain(lines, j, stop) ==
  IF j > stop THEN <<>>
  ELSE lines[j]
       \o (IF Exec(lines[j], semicolonEnd, 1).ok \/ Exec(lines[j], parenEnd, 1).ok
           THEN <<>>
           ELSE gatherChain(lines, j + 1, stop))

\* (chain.match(/.../g) ?? []).length
RECURSIVE countMatches(_, _, _)
countMatches(chain, pattern, lastIndex) ==
  LET match == Exec(chain, pattern, lastIndex)
  IN IF ~match.ok THEN 0 ELSE 1 + countMatches(chain, pattern, match.end)

\* const rangeOps = (chain.match(/\.(?:eq|lt|gt|lte|gte)\s*\(/g) ?? []).length
rangeOps(chain) == countMatches(chain, rangeOpPattern, 1)

\* the loop over the lines from line i on (1-based: `line: i + 1` of the code)
RECURSIVE usagesFrom(_, _, _)
usagesFrom(filePath, lines, i) ==
  IF i > Len(lines) THEN <<>>
  ELSE
    LET queryMatch == Exec(lines[i], queryPattern, 1)
    IN (IF ~queryMatch.ok THEN <<>>
        ELSE LET chain == gatherChain(lines, i,
                                      IF i + ChainWindow - 1 < Len(lines)
                                      THEN i + ChainWindow - 1 ELSE Len(lines))
                 indexMatch == Exec(chain, withIndexPattern, 1)
             IN <<[filePath |-> filePath, line |-> i,
                   tableName |-> Text(queryMatch.groups[1][1]),
                   indexName |-> IF indexMatch.ok
                                 THEN <<Text(indexMatch.groups[1][1])>> ELSE <<>>,
                   hasCollect |-> Exec(chain, callPattern("collect"), 1).ok,
                   hasTake |-> Exec(chain, callPattern("take"), 1).ok,
                   hasFirst |-> Exec(chain, callPattern("first"), 1).ok,
                   hasFilter |-> Exec(chain, callPattern("filter"), 1).ok,
                   rangeFieldCount |-> rangeOps(chain)]>>)
       \o usagesFrom(filePath, lines, i + 1)

extractQueryUsages(filePath, content) == usagesFrom(filePath, content.lines, 1)

(***************************************************************************)
(* Query chains as they are written in a query file (the sample queries of *)
(* src/unnamed/part_000), rendered to text                                 *)
(***************************************************************************)
Str(word) == <<Quote, word, Quote>>

Call(name, args) == <<".", name, "(">> \o args \o <<")">>

Arrow(body) == <<"(", "q", ")", " ", "=", ">", " ">> \o body

\* (q) => q.eq("projectId", args.projectId)
RangeCallback ==
  Arrow(<<"q">> \o Call("eq", Str("projectId") \o <<",", " ", "args", ".", "projectId">>))

\* (q) => q.<op>(q.field("status"), args.status)
FilterCallback(op) ==
  Arrow(<<"q">> \o Call(op, <<"q">> \o Call("field", Str("status"))
                            \o <<",", " ", "args", ".", "status">>))

\* the method calls of a chain after ctx.db, one segment each
ChainSegments(c) ==
  <<Call("query", Str(c.tableName))>>
  \o (IF c.indexName = <<>> THEN <<>>
      ELSE <<Call("withIndex",
                  Str(c.indexName[1])
                  \o (IF c.rangeFieldCount > 0 THEN <<",", " ">> \o RangeCallback
                      ELSE <<>>))>>)
  \o (IF c.filter = "" THEN <<>> ELSE <<Call("filter", FilterCallback(c.filter))>>)
  \o (IF c.terminal = "" THEN <<>>
      ELSE <<Call(c.terminal, IF c.terminal = "take" THEN <<"10">> ELSE <<>>)>>)

RECURSIVE Concat(_)
Concat(texts) == IF texts = <<>> THEN <<>> ELSE Head(texts) \o Concat(Tail(texts))

\* the statement on one line: ctx.db.query("t")....collect();
OneLine(c) == <<"ctx", ".", "db">> \o Concat(ChainSegments(c)) \o <<";">>

\* a one-line chain of the scanned files: the filter stage compares with neq
QueryLine(tableName, indexName, hasCollect, hasFilter, rangeFieldCount) ==
  OneLine([tableName |-> tableName, indexName |-> indexName,
           rangeFieldCount |-> rangeFieldCount,
           filter |-> IF hasFilter THEN "neq" ELSE "",
           terminal |-> IF hasCollect THEN "collect" ELSE ""])


\* for (const usage of usages) issues.push(...evaluateUsage(usage, indexMap))
RECURSIVE evaluateUsages(_, _)
evaluateUsages(usages, indexMap) ==
  IF usages = <<>> THEN <<>>
  ELSE evaluateUsage(Head(usages), indexMap) \o evaluateUsages(Tail(usages), indexMap)

\* severityOrder = { high: 0, medium: 1, low: 2 }
severityOrder(severity) ==
  CASE severity = "high" -> 0
    [] severity = "medium" -> 1
    [] severity = "low" -> 2

\* the issues left as they were found
SortIssues_none(issues) == issues

\* issues.sort((a, b) => severityOrder[a.severity] - severityOrder[b.severity])
SortIssues(issues) ==
  Elements(SortRanked([i \in DOMAIN issues |->
                         <<severityOrder(issues[i].severity), issues[i]>>]))

QueryFilePaths == {"convex/tasks.ts", "convex/users.ts"}

LineValues ==
  {BlankLine,
   QueryLine("tasks", <<>>, TRUE, FALSE, 0),
   QueryLine("tasks", <<>>, FALSE, TRUE, 0),
   QueryLine("tasks", <<"by_project">>, TRUE, TRUE, 0),
   QueryLine("tasks", <<"by_project">>, FALSE, TRUE, 1),
   QueryLine("tasks", <<"by_due_date">>, TRUE, FALSE, 0)}

ContentValues ==
  {NullContent} \cup {Content(lines) : lines \in SeqsUpTo(LineValues, MaxLines) \ {<<>>}}

\* lists of files with distinct paths
QueryFileLists ==
  {fl \in SeqsUpTo([fsPath : QueryFilePaths, content : ContentValues], MaxQueryFiles) :
     \A i, j \in DOMAIN fl : i # j => fl[i].fsPath # fl[j].fsPath}

InitScan ==
  /\ queryFiles \in QueryFileLists
  /\ knownIndexes \in
       {<<>>, <<[table |-> "tasks", name |-> "by_project",
                fields |-> <<"projectId", "status">>, type |-> "by_field"]>>}
  /\ scan = [pc |-> "files", file |-> 1, issues |-> <<>>, result |-> <<>>]
  /\ usage = NoUsage
  /\ coverage = NoCoverage
  /\ DriftIdle
  /\ ImportIdle
  /\ ParserIdle
  /\ InferIdle
  /\ ResolveIdle
  /\ ChainIdle
  /\ WatcherIdle

\* if (!content) {continue;}
SkipFile ==
  /\ scan.pc = "files"
  /\ scan.file <= Len(queryFiles)
  /\ IsFalsy(queryFiles[scan.file].content)
  /\ scan' = [scan EXCEPT !.file = @ + 1]
  /\ UNCHANGED <<queryFiles, analyzerVars, driftVars, importVars, parserVars, inferVars, resolveVars, chainVars, watcherVars>>

\* one pass of the file loop: the usages of the file, evaluated in line order
ScanFile ==
  /\ scan.pc = "files"
  /\ scan.file <= Len(queryFiles)
  /\ ~IsFalsy(queryFiles[scan.file].content)
  /\ LET file == queryFiles[scan.file]
         usages == extractQueryUsages(file.fsPath, file.content)
     IN scan' = [scan EXCEPT
                   !.file = @ + 1,
                   !.issues = @ \o evaluateUsages(usages, buildIndexMap(knownIndexes))]
  /\ UNCHANGED <<queryFiles, analyzerVars, driftVars, importVars, parserVars, inferVars, resolveVars, chainVars, watcherVars>>

\* after the loop: sort by severity and return
ReturnIssues ==
  /\ scan.pc = "files"
  /\ scan.file > Len(queryFiles)
  /\ scan' = [scan EXCEPT !.pc = "done", !.result = SortIssues(scan.issues)]
  /\ UNCHANGED <<queryFiles, analyzerVars, driftVars, importVars, parserVars, inferVars, resolveVars, chainVars, watcherVars>>

NextScan == SkipFile \/ ScanFile \/ ReturnIssues

SpecScan == InitScan /\ [][NextScan]_vars

(***************************************************************************)
(* Properties of analyzeIndexCoverage                                      *)
(***************************************************************************)
Scanned == scan # NoScan /\ scan.pc = "done"

\* where an issue was found: <<position of its file in the scan, line>>
IssueOrigin(issue) ==
  CHOOSE o \in {<<f, l>> : f \in DOMAIN queryFiles, l \in 1..MaxLines} :
    issue.functionPath = queryFiles[o[1]].fsPath \o ":" \o ToString(o[2])

Before(a, b) == a[1] < b[1] \/ (a[1] = b[1] /\ a[2] < b[2])

\* C12: the returned issues are ordered high, then medium, then low, and
\* issues of equal severity keep their discovery order: the order of the
\* files scanned, then the line order of the usages within a file.
C12_IssueOrdering ==
  Scanned =>
    /\ Len(scan.result) = Len(scan.issues)
    /\ \A s \in {"high", "medium", "low"} :
         OfSeverity(scan.result, s) = OfSeverity(scan.issues, s)
    /\ \A i, j \in DOMAIN scan.result :
         i < j =>
           LET a == scan.result[i]
               b == scan.result[j]
           IN /\ severityOrder(a.severity) <= severityOrder(b.severity)
              /\ a.severity = b.severity => Before(IssueOrigin(a), IssueOrigin(b))

\* a low issue of the first file, then a high and a medium issue of the second
C12_Witness ==
  /\ Scanned
  /\ Len(queryFiles) = 2
  /\ queryFiles[1].fsPath = "convex/users.ts"
  /\ Len(scan.issues) >= 3
  /\ scan.issues[1].severity = "low"
  /\ \E i, j \in DOMAIN scan.issues :
       /\ i < j
       /\ scan.issues[i].severity = "medium"
       /\ scan.issues[j].severity = "high"
       /\ IssueOrigin(scan.issues[i])[1] = 2
  /\ scan.result[1].severity = "high"
  /\ scan.result # scan.issues

(***************************************************************************)
(* Schema parser, one source: src/src/schema/schemaParser.ts               *)
(***************************************************************************)
\* /(?:(\w+)\s*:\s*defineTable|export\s+const\s+(\w+)\s*=\s*defineTable)\s*\(\s*\{([\s\S]*?)\}\s*\)/g
tablePattern ==
  Cat(<<Alt(<<Cat(<<Group(1, Word), Ws, Tok(":"), Ws, Tok("defineTable")>>),
              Cat(<<Tok("export"), Ws1, Tok("const"), Ws1, Group(2, Word), Ws, Tok("="),
                    Ws, Tok("defineTable")>>)>>),
        Ws, Tok("("), Ws, Tok("{"), Group(3, Lazy(Class("any"))), Tok("}"), Ws, Tok(")")>>)

\* /(\w+)\s*:\s*(?:v\.(\w+)\s*\(([^)]*(?:\([^)]*\))*[^)]*)\)|(\w+Validator|\w+Status\w*|\w+Type\w*|\w+Role\w*))/g
fieldPattern ==
  Cat(<<Group(1, Word), Ws, Tok(":"), Ws,
        Alt(<<Cat(<<Tok("v"), Tok("."), Group(2, Word), Ws, Tok("("),
                    Group(3, Cat(<<Star(Class("notRParen")),
                                   Star(Cat(<<Tok("("), Star(Class("notRParen")), Tok(")")>>)),
                                   Star(Class("notRParen"))>>)),
                    Tok(")")>>),
              Group(4, Class("custom"))>>)>>)

\* /v\.(\w+)\s*\(([^)]*)\)/
innerPattern ==
  Cat(<<Tok("v"), Tok("."), Group(1, Word), Ws, Tok("("),
        Group(2, Star(Class("notRParen"))), Tok(")")>>)

\* /(\w+)\s*:\s*v\.(?:optional\s*\(\s*)?id\s*\(\s*["'](\w+)["']\s*\)/g
idRefPattern ==
  Cat(<<Group(1, Word), Ws, Tok(":"), Ws, Tok("v"), Tok("."),
        Opt(Cat(<<Tok("optional"), Ws, Tok("("), Ws>>)),
        Tok("id"), Ws, Tok("("), Ws, Q, Group(2, Word), Q, Ws, Tok(")")>>)

\* /defineTable\s*\(\s*\{[\s\S]*?\}\s*\)([\s\S]*?)(?=(?:export\s+const|(?:^|\n)\w+\s*:\s*defineTable)|$)/
scopePattern ==
  Cat(<<Tok("defineTable"), Ws, Tok("("), Ws, Tok("{"), Lazy(Class("any")), Tok("}"), Ws,
        Tok(")"), Group(1, Lazy(Class("any"))),
        LookAhead(Alt(<<Alt(<<Cat(<<Tok("export"), Ws1, Tok("const")>>),
                              Cat(<<Alt(<<Bol, Tok("\n")>>), Word, Ws, Tok(":"), Ws,
                                    Tok("defineTable")>>)>>),
                        Eol>>))>>)

\* /\.index\s*\(\s*["']([^"']+)["']\s*,\s*\[([^\]]*)\]\s*\)/g
indexPattern ==
  Cat(<<Tok("."), Tok("index"), Ws, Tok("("), Ws, Q, Group(1, Plus(Class("notQuote"))), Q,
        Ws, Tok(","), Ws, Tok("["), Group(2, Star(Class("notRBracket"))), Tok("]"), Ws,
        Tok(")")>>)

\* /\.searchIndex\s*\(\s*["']([^"']+)["']\s*,\s*\{([^}]*)\}\s*\)/g
searchPattern ==
  Cat(<<Tok("."), Tok("searchIndex"), Ws, Tok("("), Ws, Q,
        Group(1, Plus(Class("notQuote"))), Q, Ws, Tok(","), Ws, Tok("{"),
        Group(2, Star(Class("notRBrace"))), Tok("}"), Ws, Tok(")")>>)

\* /\.vectorIndex\s*\(\s*["']([^"']+)["']\s*,\s*\{([^}]*)\}\s*\)/g
vectorPattern ==
  Cat(<<Tok("."), Tok("vectorIndex"), Ws, Tok("("), Ws, Q,
        Group(1, Plus(Class("notQuote"))), Q, Ws, Tok(","), Ws, Tok("{"),
        Group(2, Star(Class("notRBrace"))), Tok("}"), Ws, Tok(")")>>)

\* /searchField\s*:\s*["'](\w+)["']/ and /vectorField\s*:\s*["'](\w+)["']/
bodyFieldPattern(key) == Cat(<<Tok(key), Ws, Tok(":"), Ws, Q, Group(1, Word), Q>>)

\* customValidator.replace(/Validator$/, "")
StripValidator(name) ==
  CASE name = "userRoleValidator" -> "userRole"
    [] OTHER -> name

RECURSIVE resolveValidatorType(_, _)
resolveValidatorType(validatorType, validatorArg) ==
  CASE validatorType = "string" -> <<"string">>
    [] validatorType \in {"number", "float64", "int64"} -> <<"number">>
    [] validatorType = "boolean" -> <<"boolean">>
    [] validatorType = "id" -> <<"Id<" \o Text(StripQuotes(validatorArg)) \o ">">>
    [] validatorType = "array" -> <<"array">>
    [] validatorType = "object" -> <<"object">>
    [] validatorType = "union" -> <<"union">>
    [] validatorType = "literal" -> <<Quote \o Text(StripQuotes(validatorArg)) \o Quote>>
    [] validatorType = "optional" ->
         LET innerMatch == Exec(validatorArg, innerPattern, 1)
         IN IF innerMatch.ok
            THEN resolveValidatorType(Text(innerMatch.groups[1][1]), innerMatch.groups[2][1])
            ELSE <<"unknown?">>
    [] validatorType = "null_" -> <<"null">>
    [] validatorType = "bytes" -> <<"bytes">>
    [] validatorType = "any" -> <<"any">>
    [] OTHER -> <<validatorType>>

\* the loop of parseFields from lastIndex; confidence is kept in hundredths
RECURSIVE parseFieldsFrom(_, _)
parseFieldsFrom(fieldsBlock, lastIndex) ==
  LET fieldMatch == Exec(fieldsBlock, fieldPattern, lastIndex)
  IN IF ~fieldMatch.ok THEN <<>>
     ELSE LET fieldName == Text(fieldMatch.groups[1][1])
              validatorType == fieldMatch.groups[2]
              validatorArg == IF fieldMatch.groups[3] = <<>> THEN <<>>
                              ELSE Trim(fieldMatch.groups[3][1])
              customValidator == fieldMatch.groups[4]
              field ==
                IF validatorType # <<>>
                THEN <<[path |-> fieldName,
                        types |-> resolveValidatorType(Text(validatorType[1]), validatorArg),
                        optionalRate |-> IF Text(validatorType[1]) = "optional" THEN 1 ELSE 0,
                        sampleCount |-> 0, confidence |-> 100]>>
                ELSE IF customValidator # <<>>
                     THEN <<[path |-> fieldName,
                             types |-> <<StripValidator(Text(customValidator[1]))>>,
                             optionalRate |-> 0, sampleCount |-> 0, confidence |-> 80]>>
                     ELSE <<>>
          IN field \o parseFieldsFrom(fieldsBlock, fieldMatch.end)

parseFields(fieldsBlock) == parseFieldsFrom(fieldsBlock, 1)

RECURSIVE extractRelationsFrom(_, _, _)
extractRelationsFrom(tableName, fieldsBlock, lastIndex) ==
  LET match == Exec(fieldsBlock, idRefPattern, lastIndex)
  IN IF ~match.ok THEN <<>>
     ELSE <<[fromTable |-> tableName, fromFieldPath |-> Text(match.groups[1][1]),
             toTable |-> Text(match.groups[2][1]), confidence |-> 100,
             source |-> "inferred"]>>
          \o extractRelationsFrom(tableName, fieldsBlock, match.end)

extractRelations(tableName, fieldsBlock) == extractRelationsFrom(tableName, fieldsBlock, 1)

\* the field list taken without trimming the pieces
IndexFields_noTrim(fieldsStr) ==
  LET pieces == SplitComma(fieldsStr, <<>>)
      names == [i \in DOMAIN pieces |-> Text(StripQuotes(pieces[i]))]
  IN SelectSeq(names, LAMBDA f : f # "")

\* fieldsStr.split(",").map((f) => f.trim().replace(/["']/g, "")).filter(Boolean)
IndexFields(fieldsStr) ==
  LET pieces == SplitComma(fieldsStr, <<>>)
      names == [i \in DOMAIN pieces |-> Text(StripQuotes(Trim(pieces[i])))]
  IN SelectSeq(names, LAMBDA f : f # "")

RECURSIVE byFieldIndexes(_, _, _)
byFieldIndexes(tableName, chainBlock, lastIndex) ==
  LET match == Exec(chainBlock, indexPattern, lastIndex)
  IN IF ~match.ok THEN <<>>
     ELSE <<[table |-> tableName, name |-> Text(match.groups[1][1]),
             fields |-> IndexFields(match.groups[2][1]), type |-> "by_field"]>>
          \o byFieldIndexes(tableName, chainBlock, match.end)

\* the searchIndex and vectorIndex loops: pattern, body key and type differ
RECURSIVE bodyIndexes(_, _, _, _, _, _)
bodyIndexes(tableName, chainBlock, pattern, key, type, lastIndex) ==
  LET match == Exec(chainBlock, pattern, lastIndex)
  IN IF ~match.ok THEN <<>>
     ELSE LET fieldMatch == Exec(match.groups[2][1], bodyFieldPattern(key), 1)
          IN <<[table |-> tableName, name |-> Text(match.groups[1][1]),
                fields |-> IF fieldMatch.ok THEN <<Text(fieldMatch.groups[1][1])>> ELSE <<>>,
                type |-> type]>>
             \o bodyIndexes(tableName, chainBlock, pattern, key, type, match.end)

\* fullContent.substring(tableStart), then the chain block of the scope match
chainBlockOf(fullContent, tableStart) ==
  LET afterTable == SubSeq(fullContent, tableStart, Len(fullContent))
      scopeMatch == Exec(afterTable, scopePattern, 1)
  IN IF scopeMatch.ok THEN scopeMatch.groups[1][1] ELSE afterTable

extractIndexes(tableName, fullContent, tableStart) ==
  LET chainBlock == chainBlockOf(fullContent, tableStart)
  IN byFieldIndexes(tableName, chainBlock, 1)
     \o bodyIndexes(tableName, chainBlock, searchPattern, "searchField", "search", 1)
     \o bodyIndexes(tableName, chainBlock, vectorPattern, "vectorField", "vector", 1)

(***************************************************************************)
(* Schema sources: definitions in the three shapes the parser documents,    *)
(* rendered to the text handed to parseSourceFile                           *)
(***************************************************************************)
MaxDecls == 2
MaxChain == 1

Decl(name, optional, validator, arg) ==
  [name |-> name, optional |-> optional, validator |-> validator, arg |-> arg]

\* the field declarations a table may carry, in the order they are written
DeclsOf(table) ==
  IF table = "tasks"
  THEN <<Decl("projectId", FALSE, "id", "projects"),
         Decl("assigneeId", TRUE, "id", "users"),
         Decl("status", FALSE, "union", "")>>
  ELSE <<Decl("bio", TRUE, "string", ""),
         Decl("role", FALSE, "custom", "userRoleValidator")>>

IndexCall(kind, name, fields) == [kind |-> kind, name |-> name, fields |-> fields]

\* the index calls that may be chained after a table, in the order written
ChainsOf(table) ==
  IF table = "tasks"
  THEN <<IndexCall("index", "by_project", <<"projectId", "status">>),
         IndexCall("searchIndex", "search_title", <<"title">>)>>
  ELSE <<IndexCall("vectorIndex", "by_embedding", <<"embedding">>)>>

\* the subsequences of s of at most n elements
RECURSIVE SubSeqsUpTo(_, _)
SubSeqsUpTo(s, n) ==
  IF s = <<>> \/ n = 0 THEN {<<>>}
  ELSE SubSeqsUpTo(Tail(s), n)
       \cup {<<Head(s)>> \o r : r \in SubSeqsUpTo(Tail(s), n - 1)}

TableDefs(table) ==
  {[name |-> table, decls |-> d, chain |-> c] :
     d \in SubSeqsUpTo(DeclsOf(table), MaxDecls) \ {<<>>},
     c \in SubSeqsUpTo(ChainsOf(table), MaxChain)}

Layouts == {"inline", "schema", "split"}

SourceDefs ==
  {[layout |-> l, tables |-> ts] :
     l \in Layouts,
     ts \in {<<t>> : t \in TableDefs("tasks") \cup TableDefs("users")}
            \cup (IF MaxSourceTables >= 2
                  THEN {<<t, u>> : t \in TableDefs("tasks"), u \in TableDefs("users")}
                       \cup {<<u, t>> : t \in TableDefs("tasks"), u \in TableDefs("users")}
                  ELSE {})}

V(name, arg) == <<"v", ".", name, "(">> \o arg \o <<")">>

RenderValidator(d) ==
  LET base == CASE d.validator = "id" -> V("id", <<Quote, d.arg, Quote>>)
                [] d.validator = "union" ->
                     V("union", V("literal", <<Quote, "todo", Quote>>) \o <<",", " ">>
                                \o V("literal", <<Quote, "done", Quote>>))
                [] d.validator = "custom" -> <<d.arg>>
                [] OTHER -> V(d.validator, <<>>)
  IN IF d.optional THEN V("optional", base) ELSE base

RenderDecl(d) == <<d.name, ":", " ">> \o RenderValidator(d)

RECURSIVE JoinWith(_, _)
JoinWith(parts, sep) ==
  IF parts = <<>> THEN <<>>
  ELSE IF Len(parts) = 1 THEN parts[1]
       ELSE parts[1] \o sep \o JoinWith(Tail(parts), sep)

RenderCall(c) ==
  <<".", c.kind, "(", Quote, c.name, Quote, ",", " ">>
  \o (CASE c.kind = "index" ->
             <<"[">> \o JoinWith([i \in DOMAIN c.fields |-> <<Quote, c.fields[i], Quote>>],
                                 <<",", " ">>) \o <<"]">>
        [] c.kind = "searchIndex" ->
             <<"{", " ", "searchField", ":", " ", Quote, c.fields[1], Quote, " ", "}">>
        [] c.kind = "vectorIndex" ->
             <<"{", " ", "vectorField", ":", " ", Quote, c.fields[1], Quote, ",", " ",
               "dimensions", ":", " ", "1536", " ", "}">>)
  \o <<")">>

\* one table on one line: name: defineTable({ f, g }).index(...)
RenderInline(t) ==
  <<t.name, ":", " ", "defineTable", "(", "{", " ">>
  \o JoinWith([i \in DOMAIN t.decls |-> RenderDecl(t.decls[i])], <<",", " ">>)
  \o <<" ", "}", ")">>
  \o JoinWith([i \in DOMAIN t.chain |-> RenderCall(t.chain[i])], <<>>)

\* the block of a table after its opening line, two levels of indent deep
RenderBlock(t, indent) ==
  <<"(", "{", "\n">>
  \o JoinWith([i \in DOMAIN t.decls |->
                 indent \o <<" ", " ">> \o RenderDecl(t.decls[i]) \o <<",", "\n">>], <<>>)
  \o indent \o <<"}", ")">>
  \o JoinWith([i \in DOMAIN t.chain |->
                 <<"\n">> \o indent \o <<" ", " ">> \o RenderCall(t.chain[i])], <<>>)

\* a table of the sample schema: indented inside defineSchema({ ... })
RenderSchemaTable(t) ==
  <<" ", " ", t.name, ":", " ", "defineTable">> \o RenderBlock(t, <<" ", " ">>) \o <<",", "\n">>

\* a table of a split file: export const name = defineTable({ ... });
RenderSplitTable(t) ==
  <<"export", " ", "const", " ", t.name, " ", "=", " ", "defineTable">>
  \o RenderBlock(t, <<>>) \o <<";", "\n">>

Render(def) ==
  CASE def.layout = "inline" ->
         JoinWith([i \in DOMAIN def.tables |-> RenderInline(def.tables[i])], <<",", "\n">>)
    [] def.layout = "schema" ->
         <<"export", " ", "default", " ", "defineSchema", "(", "{", "\n">>
         \o JoinWith([i \in DOMAIN def.tables |-> RenderSchemaTable(def.tables[i])], <<"\n">>)
         \o <<"}", ")", ";", "\n">>
    [] def.layout = "split" ->
         JoinWith([i \in DOMAIN def.tables |-> RenderSplitTable(def.tables[i])], <<"\n">>)

(***************************************************************************)
(* parseSourceFile as steps: one iteration of the table loop per step       *)
(***************************************************************************)
InitParser ==
  /\ \E def \in SourceDefs : source = [def |-> def, content |-> Render(def)]
  /\ parsing = [pc |-> "scan", lastIndex |-> 1, tables |-> <<>>, indexes |-> <<>>,
                relations |-> <<>>]
  /\ DriftIdle
  /\ AnalyzerIdle
  /\ ImportIdle
  /\ ScanIdle
  /\ InferIdle
  /\ ResolveIdle
  /\ ChainIdle
  /\ WatcherIdle

\* while ((tableMatch = tablePattern.exec(content)) !== null) { ... }
ParseTable ==
  /\ parsing.pc = "scan"
  /\ LET tableMatch == Exec(source.content, tablePattern, parsing.lastIndex)
     IN /\ tableMatch.ok
        /\ LET tableName == IF tableMatch.groups[1] # <<>>
                            THEN Text(tableMatch.groups[1][1])
                            ELSE Text(tableMatch.groups[2][1])
               fieldsBlock == tableMatch.groups[3][1]
           IN parsing' =
                [parsing EXCEPT
                   !.lastIndex = tableMatch.end,
                   !.tables = Append(@, [table |-> tableName,
                                         fields |-> parseFields(fieldsBlock),
                                         sampledDocs |-> 0]),
                   !.relations = @ \o extractRelations(tableName, fieldsBlock),
                   !.indexes = @ \o extractIndexes(tableName, source.content,
                                                   tableMatch.index)]
  /\ UNCHANGED <<source, driftVars, analyzerVars, importVars, scanVars, inferVars, resolveVars, chainVars, watcherVars>>

\* the exec that finds no further table ends the loop: return { tables, indexes, relations }
ParseReturn ==
  /\ parsing.pc = "scan"
  /\ ~Exec(source.content, tablePattern, parsing.lastIndex).ok
  /\ parsing' = [parsing EXCEPT !.pc = "done"]
  /\ UNCHANGED <<source, driftVars, analyzerVars, importVars, scanVars, inferVars, resolveVars, chainVars, watcherVars>>

NextParser == ParseTable \/ ParseReturn

SpecParser == InitParser /\ [][NextParser]_vars

(***************************************************************************)
(* Properties of the parser                                               *)
(***************************************************************************)
Parsed == parsing # NoParsing /\ parsing.pc = "done"

\* tasks: defineTable({ projectId: v.id("projects"), status: v.union(...) })
\*   .index("by_project", ["projectId", "status"])
TasksByProject ==
  [name |-> "tasks",
   decls |-> <<Decl("projectId", FALSE, "id", "projects"), Decl("status", FALSE, "union", "")>>,
   chain |-> <<IndexCall("index", "by_project", <<"projectId", "status">>)>>]

ContainsTasksByProject ==
  /\ source.def.layout # "split"
  /\ TasksByProject \in Range(source.def.tables)

\* C4: parsing a source that contains the definition
\* tasks: defineTable({ projectId: v.id("projects"), status: v.union(...) })
\* .index("by_project", ["projectId","status"]) yields exactly one table
\* named tasks, with a field projectId of types [Id<projects>]; exactly one
\* relation of tasks, projectId -> projects with confidence 1.0 and source
\* inferred; and exactly one index by_project of tasks, of type by_field
\* with fields [projectId, status].  A source that is this definition alone
\* yields nothing else.
C4_ParserEndToEnd ==
  (Parsed /\ ContainsTasksByProject) =>
    LET tasks == SelectSeq(parsing.tables, LAMBDA t : t.table = "tasks")
        edges == SelectSeq(parsing.relations, LAMBDA r : r.fromTable = "tasks")
        byProject == SelectSeq(parsing.indexes,
                               LAMBDA x : x.table = "tasks" /\ x.name = "by_project")
    IN /\ Len(tasks) = 1
       /\ \E f \in Range(tasks[1].fields) :
            f.path = "projectId" /\ f.types = <<"Id<projects>">>
       /\ edges = <<[fromTable |-> "tasks", fromFieldPath |-> "projectId",
                     toTable |-> "projects", confidence |-> 100, source |-> "inferred"]>>
       /\ byProject = <<[table |-> "tasks", name |-> "by_project",
                         fields |-> <<"projectId", "status">>, type |-> "by_field"]>>
       /\ Len(source.def.tables) = 1 =>
            /\ Len(parsing.tables) = 1
            /\ parsing.relations = edges
            /\ parsing.indexes = byProject

C4_Witness ==
  /\ Parsed
  /\ source.def.layout = "inline"
  /\ source.def.tables = <<TasksByProject>>
  /\ Len(parsing.indexes) = 1

\* C5: every index attributed to a table comes from an .index, .searchIndex
\* or .vectorIndex call chained after that table's own definition, in every
\* shape of source, the indented one of the sample schema included; an index
\* declared after a later table is never attributed to an earlier one.
C5_IndexScoping ==
  Parsed =>
    \A ix \in Range(parsing.indexes) :
      \E t \in Range(source.def.tables) :
        /\ t.name = ix.table
        /\ \E c \in Range(t.chain) : c.name = ix.name

\* C6: every declaration f: v.id("T") or f: v.optional(v.id("T")) of a
\* table yields the relation from that table's f to T with confidence 1.0
\* and source inferred.
C6_DeclaredRelations ==
  Parsed =>
    \A t \in Range(source.def.tables) :
      \A d \in Range(t.decls) :
        d.validator = "id" =>
          [fromTable |-> t.name, fromFieldPath |-> d.name, toTable |-> d.arg,
           confidence |-> 100, source |-> "inferred"] \in Range(parsing.relations)

\* the types resolved for v.X(args) alone
ResolvedAlone(d) ==
  resolveValidatorType(d.validator,
                       IF d.validator = "id" THEN <<Quote, d.arg, Quote>> ELSE <<>>)

\* C7: a field declared f: v.optional(v.X(args)) is parsed into a field whose
\* types are those resolved for v.X(args) alone and whose optionalRate is 1;
\* a field not declared with v.optional has optionalRate 0; no type name
\* stands for optionality.
C7_OptionalFields ==
  Parsed =>
    \A t \in Range(source.def.tables) :
      \A d \in Range(t.decls) :
        \E table \in Range(parsing.tables) :
          /\ table.table = t.name
          /\ \E f \in Range(table.fields) :
               /\ f.path = d.name
               /\ f.optionalRate = (IF d.optional THEN 1 ELSE 0)
               /\ d.optional => f.types = ResolvedAlone(d)
               /\ \A type \in Range(f.types) : type \notin {"optional", "unknown?"}

(***************************************************************************)
(* JavaScript numbers: IEEE 754 binary64, round to nearest, ties to even   *)
(*                                                                         *)
(* A number is [neg, e, m]: m is the 53-bit significand, first bit 1, and  *)
(* the value is (0.m1 m2 ... m53 in binary) * 2^e; zero has m all 0.       *)
(***************************************************************************)
Precision == 53

Zero == [neg |-> FALSE, e |-> 0, m |-> [i \in 1..Precision |-> 0]]

One == [neg |-> FALSE, e |-> 1, m |-> [i \in 1..Precision |-> IF i = 1 THEN 1 ELSE 0]]

IsZero(x) == \A i \in 1..Precision : x.m[i] = 0

RECURSIVE Pow2(_)
Pow2(n) == IF n = 0 THEN 1 ELSE 2 * Pow2(n - 1)

MaxOf(S) == CHOOSE x \in S : \A y \in S : y <= x

\* the significand plus one unit in the last place; all ones carry into 2^e
NextUp(neg, e, m) ==
  IF \A i \in 1..Precision : m[i] = 1
  THEN [neg |-> neg, e |-> e + 1, m |-> One.m]
  ELSE LET k == MaxOf({i \in 1..Precision : m[i] = 0})
       IN [neg |-> neg, e |-> e,
           m |-> [i \in 1..Precision |-> IF i < k THEN m[i] ELSE IF i = k THEN 1 ELSE 0]]

\* the number nearest to (0.s in binary) * 2^e, for a bit string s of any length
Normalize(neg, s, e) ==
  IF \A i \in DOMAIN s : s[i] = 0 THEN Zero
  ELSE LET z == MinOf({i \in DOMAIN s : s[i] = 1}) - 1
           t == SubSeq(s, z + 1, Len(s))
           m == [i \in 1..Precision |-> IF i <= Len(t) THEN t[i] ELSE 0]
           up == /\ Len(t) > Precision
                 /\ t[Precision + 1] = 1
                 /\ \/ \E i \in (Precision + 2)..Len(t) : t[i] = 1
                    \/ t[Precision] = 1
       IN IF up THEN NextUp(neg, e - z, m) ELSE [neg |-> neg, e |-> e - z, m |-> m]

\* the remainders of the long division of r by den, one binary digit a step
RECURSIVE Remainders(_, _, _)
Remainders(r, den, n) ==
  IF n = 0 THEN <<r>>
  ELSE <<r>> \o Remainders(IF 2 * r >= den THEN 2 * r - den ELSE 2 * r, den, n - 1)

\* p / q for integers p >= 0 and q > 0: long division, then rounding
Divide(p, q) ==
  IF p = 0 THEN Zero
  ELSE LET e == CHOOSE k \in -12..12 :
                  IF k >= 0 THEN q * Pow2(k) <= 2 * p /\ p < q * Pow2(k)
                  ELSE q <= 2 * p * Pow2(-k) /\ p * Pow2(-k) < q
           num == IF e >= 0 THEN p ELSE p * Pow2(-e)
           den == IF e >= 0 THEN q * Pow2(e) ELSE q
           rem == Remainders(num, den, Precision)
           m == [i \in 1..Precision |-> IF 2 * rem[i] >= den THEN 1 ELSE 0]
           last == 2 * rem[Precision + 1]
           up == last > den \/ (last = den /\ m[Precision] = 1)
       IN IF up THEN NextUp(FALSE, e, m) ELSE [neg |-> FALSE, e |-> e, m |-> m]

\* 1 - x for x >= 0
OneMinus(x) ==
  IF IsZero(x) THEN One
  ELSE IF x.e <= 0
       THEN \* x < 1: 1 - 0.X over the bits of X, then rounded
            LET X == [i \in 1..(Precision - x.e) |-> IF i <= -x.e THEN 0 ELSE x.m[i + x.e]]
                k == MaxOf({i \in DOMAIN X : X[i] = 1})
            IN Normalize(FALSE, [i \in DOMAIN X |-> IF i < k THEN 1 - X[i] ELSE X[i]], 0)
       ELSE \* x >= 1: -(x - 1), the integer part of x less one
            LET k == MaxOf({i \in 1..x.e : x.m[i] = 1})
            IN Normalize(TRUE,
                         [i \in 1..Precision |->
                            IF i < k \/ i > x.e THEN x.m[i] ELSE IF i = k THEN 0 ELSE 1],
                         x.e)

\* Math.min(x, 1) for x >= 0
MinOne(x) == IF ~IsZero(x) /\ x.e >= 1 THEN One ELSE x

\* Math.max(a, b) of integers
MaxInt(a, b) == IF a >= b THEN a ELSE b

(***************************************************************************)
(* Document type inferencer: src/unnamed/part_003                          *)
(*                                                                         *)
(* A key or path is the sequence of its characters.  A value is            *)
(* [t, entries]: t is what getTypeName returns for it and entries are the  *)
(* <<key, value>> pairs of an object in Object.entries order.              *)
(***************************************************************************)
Val(t) == [t |-> t, entries |-> <<>>]

Obj(entries) == [t |-> "object", entries |-> entries]

\* String.prototype.endsWith
EndsWith(str, suffix) ==
  /\ Len(str) >= Len(suffix)
  /\ SubSeq(str, Len(str) - Len(suffix) + 1, Len(str)) = suffix

\* str.replace(/suffix$/, "")
StripSuffix(str, suffix) ==
  IF EndsWith(str, suffix) THEN SubSeq(str, 1, Len(str) - Len(suffix)) ELSE str

\* str.replace(/^_/, "")
StripLeadingUnderscore(str) ==
  IF str # <<>> /\ Head(str) = "_" THEN Tail(str) ELSE str

\* path.split(".").pop()
Leaf(path) ==
  LET dots == {i \in DOMAIN path : path[i] = "."}
  IN IF dots = {} THEN path ELSE SubSeq(path, MaxOf(dots) + 1, Len(path))

\* Set.prototype.add on a set kept in insertion order
SetAdd(set, x) == IF x \in Range(set) THEN set ELSE Append(set, x)

\* getTypeName
getTypeName(value) == value.t

\* existing = result.get(key) ?? { types: new Set(), presentCount: 0 };
\* existing.types.add(type); existing.presentCount++; result.set(key, existing)
Record(result, key, type) ==
  LET existing == IF MapHas(result, key) THEN MapGet(result, key)
                  ELSE [types |-> <<>>, presentCount |-> 0]
  IN MapSet(result, key, [types |-> SetAdd(existing.types, type),
                          presentCount |-> existing.presentCount + 1])

RECURSIVE flattenDoc(_, _, _)
RECURSIVE flattenEntries(_, _, _)
\* the loop over Object.entries(obj)
flattenEntries(entries, prefix, result) ==
  IF entries = <<>> THEN result
  ELSE LET key == Head(entries)[1]
           value == Head(entries)[2]
           path == IF prefix # <<>> THEN prefix \o <<".">> \o key ELSE key
           nested == IF value.t = "object" THEN flattenDoc(value, path, result) ELSE result
       IN flattenEntries(Tail(entries), prefix, Record(nested, path, getTypeName(value)))

flattenDoc(obj, prefix, result) ==
  IF obj.t \in {"null", "undefined"} THEN result
  ELSE IF obj.t # "object"
       THEN Record(result, IF prefix # <<>> THEN prefix ELSE <<"(", "r", "o", "o", "t", ")">>,
                   getTypeName(obj))
       ELSE flattenEntries(obj.entries, prefix, result)

\* for (const doc of docs) flattenDoc(doc, "", fieldMap)
RECURSIVE flattenDocs(_, _)
flattenDocs(docs, fieldMap) ==
  IF docs = <<>> THEN fieldMap
  ELSE flattenDocs(Tail(docs), flattenDoc(Head(docs), <<>>, fieldMap))

\* the leaf test alone, whatever the observed types
isIdLikeField_anyType(path, types) ==
  EndsWith(Leaf(path), <<"I", "d">>) \/ EndsWith(Leaf(path), <<"_", "i", "d">>)

isIdLikeField(path, types) ==
  /\ EndsWith(Leaf(path), <<"I", "d">>) \/ EndsWith(Leaf(path), <<"_", "i", "d">>)
  /\ \E i \in DOMAIN types : types[i] = "string"

\* guessTargetTable: <<>> for null, <<name>> otherwise
guessTargetTable(fieldPath) ==
  LET cleaned == StripLeadingUnderscore(
                   StripSuffix(StripSuffix(Leaf(fieldPath), <<"I", "d">>), <<"_", "i", "d">>))
  IN IF Len(cleaned) < 2 THEN <<>>
     ELSE IF ~EndsWith(cleaned, <<"s">>) THEN <<cleaned \o <<"s">>>> ELSE <<cleaned>>

\* String.prototype.localeCompare over the characters of the keys: punctuation
\* before letters, letters by alphabet, and lower case before upper case only
\* when nothing else differs.
Punctuation == <<"_", ".", "(", ")">>

Letters == <<"a", "b", "c", "d", "e", "f", "g", "h", "i", "j", "k", "l", "m", "n", "o", "p",
             "q", "r", "s", "t", "u", "v", "w", "x", "y", "z">>

Capitals == <<"A", "B", "C", "D", "E", "F", "G", "H", "I", "J", "K", "L", "M", "N", "O", "P",
              "Q", "R", "S", "T", "U", "V", "W", "X", "Y", "Z">>

IndexOf(seq, x) == CHOOSE i \in DOMAIN seq : seq[i] = x

IsCapital(c) == c \in Range(Capitals)

CollationRank(c) ==
  IF c \in Range(Punctuation) THEN IndexOf(Punctuation, c)
  ELSE IF IsCapital(c) THEN Len(Punctuation) + IndexOf(Capitals, c)
       ELSE Len(Punctuation) + IndexOf(Letters, c)

\* a.localeCompare(b) < 0
LocaleBefore(a, b) ==
  LET differ == {i \in DOMAIN a \cap DOMAIN b : CollationRank(a[i]) # CollationRank(b[i])}
      cases == {i \in DOMAIN a \cap DOMAIN b : a[i] # b[i]}
  IN IF differ # {}
     THEN CollationRank(a[MinOf(differ)]) < CollationRank(b[MinOf(differ)])
     ELSE IF Len(a) # Len(b) THEN Len(a) < Len(b)
          ELSE cases # {} /\ ~IsCapital(a[MinOf(cases)])

IdPath == <<"_", "i", "d">>

CreationTimePath == <<"_", "c", "r", "e", "a", "t", "i", "o", "n", "T", "i", "m", "e">>

\* the comparator of fields.sort: _id first, _creationTime second, then alphabetical
FieldBefore(a, b) ==
  IF a = IdPath THEN TRUE
  ELSE IF b = IdPath THEN FALSE
       ELSE IF a = CreationTimePath THEN TRUE
            ELSE IF b = CreationTimePath THEN FALSE
                 ELSE LocaleBefore(a, b)

\* fields.sort(...): the paths of a Map are distinct, so the comparator ranks them
SortFields(fields) ==
  Elements(SortRanked([i \in DOMAIN fields |->
    <<Cardinality({j \in DOMAIN fields : j # i /\ FieldBefore(fields[j].path, fields[i].path)}),
      fields[i]>>]))

\* the relation pushed for one entry of fieldMap, if any; confidence in hundredths
RelationOf(tableName, path, types) ==
  IF isIdLikeField(path, types) /\ guessTargetTable(path) # <<>>
  THEN <<[fromTable |-> tableName, fromFieldPath |-> path,
          toTable |-> guessTargetTable(path)[1], confidence |-> 60, source |-> "inferred"]>>
  ELSE <<>>

RECURSIVE RelationsOf(_, _)
RelationsOf(tableName, fieldMap) ==
  IF fieldMap = <<>> THEN <<>>
  ELSE RelationOf(tableName, Head(fieldMap)[1], Head(fieldMap)[2].types)
       \o RelationsOf(tableName, Tail(fieldMap))

\* the FieldStat pushed for one entry of fieldMap
FieldOf(path, stats, total) ==
  [path |-> path, types |-> stats.types,
   optionalRate |-> OneMinus(Divide(stats.presentCount, total)),
   sampleCount |-> stats.presentCount,
   confidence |-> MinOne(Divide(stats.presentCount, MaxInt(total, 10)))]

\* the early return without its relations list
inferSchemaFromDocs_noRelations(tableName, docs) ==
  IF Len(docs) = 0
  THEN [schema |-> [table |-> tableName, fields |-> <<>>, sampledDocs |-> 0]]
  ELSE LET fieldMap == flattenDocs(docs, <<>>)
           total == Len(docs)
           fields == [i \in DOMAIN fieldMap |-> FieldOf(fieldMap[i][1], fieldMap[i][2], total)]
       IN [schema |-> [table |-> tableName, fields |-> SortFields(fields),
                       sampledDocs |-> total],
           relations |-> RelationsOf(tableName, fieldMap)]
inferSchemaFromDocs(tableName, docs) ==
  IF Len(docs) = 0
  THEN [schema |-> [table |-> tableName, fields |-> <<>>, sampledDocs |-> 0],
        relations |-> <<>>]
  ELSE LET fieldMap == flattenDocs(docs, <<>>)
           total == Len(docs)
           fields == [i \in DOMAIN fieldMap |-> FieldOf(fieldMap[i][1], fieldMap[i][2], total)]
       IN [schema |-> [table |-> tableName, fields |-> SortFields(fields),
                       sampledDocs |-> total],
           relations |-> RelationsOf(tableName, fieldMap)]

(***************************************************************************)
(* The samples handed to inferSchemaFromDocs                               *)
(***************************************************************************)
UserId == <<"u", "s", "e", "r", "I", "d">>

EmptyDoc == Obj(<<>>)

UserIdDoc == Obj(<<<<UserId, Val("string")>>>>)

\* documents of mixed shapes: nested objects, keys with a dot, the empty key,
\* the system fields, id-like keys of several spellings
DocValues ==
  {EmptyDoc,
   UserIdDoc,
   Obj(<<<<UserId, Val("number")>>>>),
   Obj(<<<<UserId, Val("null")>>>>),
   Obj(<<<<<<"a", ".", "b">>, Val("number")>>, <<<<"a">>, Obj(<<<<<<"b">>, Val("string")>>>>)>>>>),
   Obj(<<<<<<"o", "w", "n", "e", "r">>,
           Obj(<<<<<<"t", "e", "a", "m", "_", "i", "d">>, Val("string")>>>>)>>>>),
   Obj(<<<<CreationTimePath, Val("number")>>, <<IdPath, Val("string")>>>>),
   Obj(<<<<<<"x", "I", "d">>, Val("string")>>, <<<<"u", "s", "e", "r", "i", "d">>, Val("string")>>>>),
   Obj(<<<<<<"a", "d", "d", "r", "e", "s", "s", "I", "d">>, Val("string")>>,
         <<<<"t", "a", "g", "s">>, Val("array")>>>>),
   Obj(<<<<<<>>, Obj(<<<<<<>>, Val("boolean")>>>>)>>>>)}

SampleLists ==
  SeqsUpTo(DocValues, MaxDocs) \cup SeqsUpTo({EmptyDoc, UserIdDoc}, MaxSampleDocs)

InitInfer ==
  /\ samples \in [tableName : {"tasks", "users"}, docs : SampleLists]
  /\ inference = NoInference
  /\ DriftIdle
  /\ AnalyzerIdle
  /\ ImportIdle
  /\ ParserIdle
  /\ ScanIdle
  /\ ResolveIdle
  /\ ChainIdle
  /\ WatcherIdle

Infer ==
  /\ inference = NoInference
  /\ inference' = inferSchemaFromDocs(samples.tableName, samples.docs)
  /\ UNCHANGED <<samples, driftVars, analyzerVars, importVars, parserVars, scanVars, resolveVars, chainVars, watcherVars>>

NextInfer == Infer

SpecInfer == InitInfer /\ [][NextInfer]_vars

(***************************************************************************)
(* Properties of the inferencer                                            *)
(***************************************************************************)
Inferred == inference # NoInference

\* the sampled documents that contain a field at the path
DocsContaining(path) ==
  Cardinality({i \in DOMAIN samples.docs :
                 MapHas(flattenDoc(samples.docs[i], <<>>, <<>>), path)})

\* C13: for every inferred field, with presentCount the count the field
\* reports as sampleCount, optionalRate is 1 - presentCount/totalDocuments and
\* confidence is min(presentCount / max(totalDocuments, 10), 1); a field
\* present in 7 of 10 documents gets optionalRate 0.3 and confidence 0.7;
\* confidence is 1 only when at least 10 documents contain the field.
C13_OptionalityBookkeeping ==
  Inferred =>
    \A f \in Range(inference.schema.fields) :
      LET totalDocuments == Len(samples.docs)
      IN /\ f.optionalRate = OneMinus(Divide(f.sampleCount, totalDocuments))
         /\ f.confidence = MinOne(Divide(f.sampleCount, MaxInt(totalDocuments, 10)))
         /\ (DocsContaining(f.path) = 7 /\ totalDocuments = 10) =>
              f.optionalRate = Divide(3, 10) /\ f.confidence = Divide(7, 10)
         /\ f.confidence = One => DocsContaining(f.path) >= 10

\* 0 <= x <= 1
InUnitInterval(x) == ~x.neg /\ (x.e <= 0 \/ x = One)

\* C14: for every non-empty list of sample documents, keys with a dot and
\* empty keys included, every returned field has 0 <= optionalRate <= 1,
\* 0 <= confidence <= 1 and sampleCount <= sampledDocs.
C14_FieldStatRanges ==
  (Inferred /\ samples.docs # <<>>) =>
    \A f \in Range(inference.schema.fields) :
      /\ InUnitInterval(f.optionalRate)
      /\ InUnitInterval(f.confidence)
      /\ f.sampleCount <= inference.schema.sampledDocs

\* the last segment ends in Id or _id and a string was observed
IdLike(f) ==
  /\ EndsWith(Leaf(f.path), <<"I", "d">>) \/ EndsWith(Leaf(f.path), <<"_", "i", "d">>)
  /\ "string" \in Range(f.types)

\* the last segment less a trailing Id, then less a trailing _id, then less a
\* leading underscore
Stem(path) ==
  LET leaf == Leaf(path)
      noId == IF EndsWith(leaf, <<"I", "d">>) THEN SubSeq(leaf, 1, Len(leaf) - 2) ELSE leaf
      no_id == IF EndsWith(noId, <<"_", "i", "d">>) THEN SubSeq(noId, 1, Len(noId) - 3)
               ELSE noId
  IN IF no_id # <<>> /\ no_id[1] = "_" THEN Tail(no_id) ELSE no_id

Plural(stem) == IF stem # <<>> /\ stem[Len(stem)] = "s" THEN stem ELSE Append(stem, "s")

EdgesFrom(path) == {r \in Range(inference.relations) : r.fromFieldPath = path}

\* every edge listed once, from the sampled table, with confidence 0.6 (below
\* the 1.0 of a declared relation) and source inferred
EdgesWellFormed ==
  /\ \A i, j \in DOMAIN inference.relations :
       inference.relations[i].fromFieldPath = inference.relations[j].fromFieldPath => i = j
  /\ \A r \in Range(inference.relations) :
       /\ r.fromTable = samples.tableName
       /\ r.fromFieldPath \in {f.path : f \in Range(inference.schema.fields)}
       /\ r.toTable = Plural(Stem(r.fromFieldPath))
       /\ r.confidence = 60
       /\ r.confidence < 100
       /\ r.source = "inferred"

\* C15 as stated: an edge for exactly the id-like fields.
C15_InferredRelations_Original ==
  Inferred =>
    /\ EdgesWellFormed
    /\ \A f \in Range(inference.schema.fields) : IdLike(f) <=> EdgesFrom(f.path) # {}

\* C15 as amended: an edge for exactly the id-like fields whose last segment,
\* less a trailing Id, then a trailing _id, then a leading underscore, keeps
\* at least two characters; the edge's toTable is that remainder with "s"
\* appended unless it ends in "s", its confidence 0.6 and its source inferred.
C15_InferredRelations ==
  Inferred =>
    /\ EdgesWellFormed
    /\ \A f \in Range(inference.schema.fields) :
         (IdLike(f) /\ Len(Stem(f.path)) >= 2) <=> EdgesFrom(f.path) # {}

\* a nested team_id yields teams, while a number-typed userId yields nothing
C15_Witness ==
  /\ Inferred
  /\ Len(samples.docs) = 2
  /\ \E f \in Range(inference.schema.fields) : f.path = UserId /\ f.types = <<"number">>
  /\ \E r \in Range(inference.relations) :
       /\ r.fromFieldPath = <<"o", "w", "n", "e", "r", ".", "t", "e", "a", "m", "_", "i", "d">>
       /\ r.toTable = <<"t", "e", "a", "m", "s">>
  /\ Len(inference.relations) = 1

(***************************************************************************)
(* Further properties of the drift differ                                  *)
(***************************************************************************)
TableNames(snap) == {snap.tables[k].table : k \in DOMAIN snap.tables}

\* the table a snapshot holds under a name: the one listed last, as in a Map
\* built from the list
TableNamed(snap, n) ==
  snap.tables[MaxOf({k \in DOMAIN snap.tables : snap.tables[k].table = n})]

DiffsOf(n) == SelectSeq(drift.tableDiffs, LAMBDA d : d.table = n)

\* C16: a table name present only in `to` gets exactly one TableDiff, of
\* change added, with one entry per field of the table, each of change added
\* with newTypes the field's types and no oldTypes; a name present only in
\* `from` gets exactly one, of change removed, with one removed entry per
\* field carrying oldTypes and no newTypes.
C16_TableClassification ==
  Diffed =>
    /\ \A n \in TableNames(to) \ TableNames(from) :
         LET fields == TableNamed(to, n).fields
         IN DiffsOf(n) =
              <<[table |-> n, change |-> "added",
                 fieldDiffs |-> [i \in DOMAIN fields |->
                    [path |-> fields[i].path, change |-> "added",
                     newTypes |-> fields[i].types]]]>>
    /\ \A n \in TableNames(from) \ TableNames(to) :
         LET fields == TableNamed(from, n).fields
         IN DiffsOf(n) =
              <<[table |-> n, change |-> "removed",
                 fieldDiffs |-> [i \in DOMAIN fields |->
                    [path |-> fields[i].path, change |-> "removed",
                     oldTypes |-> fields[i].types]]]>>

C16_Witness ==
  /\ Diffed
  /\ TableNames(from) = {"users"}
  /\ TableNames(to) = {"tasks"}
  /\ Len(DiffsOf("tasks")) = 1
  /\ Len(DiffsOf("tasks")[1].fieldDiffs) = 2
  /\ Len(DiffsOf("users")) = 1
  /\ Len(DiffsOf("users")[1].fieldDiffs) = 1
  /\ DOMAIN DiffsOf("users")[1].fieldDiffs[1] = {"path", "change", "oldTypes"}

FieldPaths(t) == {t.fields[i].path : i \in DOMAIN t.fields}

\* the types a table holds under a path: those of the field listed last
TypesAt(t, p) ==
  t.fields[MaxOf({i \in DOMAIN t.fields : t.fields[i].path = p})].types

\* the entry the claim gives a path of two tables of the same name
ExpectedEntry(fromTable, toTable, p) ==
  IF p \in FieldPaths(toTable) \ FieldPaths(fromTable)
  THEN <<[path |-> p, change |-> "added", newTypes |-> TypesAt(toTable, p)]>>
  ELSE IF p \in FieldPaths(fromTable) \ FieldPaths(toTable)
  THEN <<[path |-> p, change |-> "removed", oldTypes |-> TypesAt(fromTable, p)]>>
  ELSE IF /\ p \in FieldPaths(fromTable) \cap FieldPaths(toTable)
          /\ Range(TypesAt(fromTable, p)) # Range(TypesAt(toTable, p))
  THEN <<[path |-> p, change |-> "type_changed",
          oldTypes |-> TypesAt(fromTable, p), newTypes |-> TypesAt(toTable, p)]>>
  ELSE <<>>

\* the entries of the paths from the k-th on, in ascending path order
RECURSIVE ExpectedFieldDiffs(_, _, _)
ExpectedFieldDiffs(fromTable, toTable, k) ==
  IF k > Len(PathOrder) THEN <<>>
  ELSE ExpectedEntry(fromTable, toTable, PathOrder[k])
       \o ExpectedFieldDiffs(fromTable, toTable, k + 1)

\* C17: for a table present in both snapshots the fieldDiffs are exactly, in
\* ascending path order, one added entry per path only in `to`, one removed
\* entry per path only in `from` and one type_changed entry (oldTypes and
\* newTypes) per path in both whose type sets differ; a modified TableDiff is
\* emitted for the table if and only if that list is non-empty.
C17_FieldClassification ==
  Diffed =>
    \A n \in TableNames(from) \cap TableNames(to) :
      LET expected ==
            ExpectedFieldDiffs(TableNamed(from, n), TableNamed(to, n), 1)
      IN DiffsOf(n) =
           IF expected = <<>> THEN <<>>
           ELSE <<[table |-> n, change |-> "modified", fieldDiffs |-> expected]>>

C17_Witness ==
  /\ Diffed
  /\ {"tasks", "users"} \subseteq TableNames(from) \cap TableNames(to)
  /\ DiffsOf("users") = <<>>
  /\ Len(DiffsOf("tasks")) = 1
  /\ LET fieldDiffs == DiffsOf("tasks")[1].fieldDiffs
     IN /\ Len(fieldDiffs) = 2
        /\ fieldDiffs[1].change = "type_changed"
        /\ fieldDiffs[2].change = "added"
        /\ TableNamed(to, "tasks").fields[1].path = fieldDiffs[2].path

\* where a table name is first listed in the snapshot its kind of diff is
\* read from
SourcePosition(d) ==
  LET snap == IF d.change = "added" THEN to ELSE from
  IN MinOf({k \in DOMAIN snap.tables : snap.tables[k].table = d.table})

\* C18: in tableDiffs every added entry precedes every modified entry and
\* every modified entry precedes every removed entry; within a kind the
\* entries keep source order (added tables as listed in to.tables, removed
\* and modified tables as listed in from.tables).
C18_TableDiffOrdering ==
  Diffed =>
    \A i, j \in DOMAIN drift.tableDiffs :
      i < j =>
        LET a == drift.tableDiffs[i]
            b == drift.tableDiffs[j]
        IN /\ ~(a.change = "modified" /\ b.change = "added")
           /\ ~(a.change = "removed" /\ b.change \in {"added", "modified"})
           /\ a.change = b.change => SourcePosition(a) < SourcePosition(b)

\* one table of each kind; the removed table is listed before the modified
\* one in from.tables
C18_Witness ==
  /\ Diffed
  /\ Len(drift.tableDiffs) = 3
  /\ drift.tableDiffs[1].change = "added"
  /\ drift.tableDiffs[2].change = "modified"
  /\ drift.tableDiffs[3].change = "removed"
  /\ SourcePosition(drift.tableDiffs[3]) < SourcePosition(drift.tableDiffs[2])

DiffsOfKind(change) ==
  {i \in DOMAIN drift.tableDiffs : drift.tableDiffs[i].change = change}

\* the fieldDiffs of the modified entries among the first k table diffs
RECURSIVE ModifiedFieldChanges(_)
ModifiedFieldChanges(k) ==
  IF k = 0 THEN 0
  ELSE ModifiedFieldChanges(k - 1)
       + (IF drift.tableDiffs[k].change = "modified"
          THEN Len(drift.tableDiffs[k].fieldDiffs) ELSE 0)

\* C19: the summary is the clauses "X table(s) added", "Y table(s) removed",
\* "Z table(s) modified (N field changes)" in that order, a clause only when
\* its count is non-zero, joined by ", " and ended by "."; X, Y, Z count the
\* tableDiffs of each kind and N totals the fieldDiffs of the modified ones
\* only; with no tableDiffs the summary is the fixed no-changes sentence.
C19_Summary ==
  Diffed =>
    LET X == Cardinality(DiffsOfKind("added"))
        Y == Cardinality(DiffsOfKind("removed"))
        Z == Cardinality(DiffsOfKind("modified"))
        N == ModifiedFieldChanges(Len(drift.tableDiffs))
        clauses ==
          SelectSeq(
            <<IF X > 0 THEN ToString(X) \o " table(s) added" ELSE "",
              IF Y > 0 THEN ToString(Y) \o " table(s) removed" ELSE "",
              IF Z > 0
              THEN ToString(Z) \o " table(s) modified (" \o ToString(N)
                   \o " field changes)"
              ELSE "">>,
            LAMBDA c : c # "")
    IN /\ drift.tableDiffs = <<>> => drift.summary = "No schema changes detected."
       /\ Len(clauses) = 1 => drift.summary = clauses[1] \o "."
       /\ Len(clauses) = 2 => drift.summary = clauses[1] \o ", " \o clauses[2] \o "."
       /\ Len(clauses) = 3 =>
            drift.summary = clauses[1] \o ", " \o clauses[2] \o ", " \o clauses[3] \o "."

\* all three clauses; the added and the removed table have fields too
C19_Witness ==
  /\ Diffed
  /\ drift.summary =
       "1 table(s) added, 1 table(s) removed, 1 table(s) modified (2 field changes)."
  /\ Len(drift.tableDiffs[1].fieldDiffs) > 0
  /\ Len(drift.tableDiffs[3].fieldDiffs) > 0

\* C21: computeDrift leaves both snapshots as they were: the order of their
\* tables, of each table's fields and of every field's types list (the type
\* comparison sorts copies).
C21_SnapshotsReadOnly == [][from' = from /\ to' = to]_vars

\* a diffed pair where the type comparison ran on a list that is not in
\* sorted order, in a table listed after another one
C21_Witness ==
  /\ Diffed
  /\ Len(from.tables) = 2
  /\ from.tables[2].table = "tasks"
  /\ "tasks" \in TableNames(to)
  /\ "name" \in FieldPaths(TableNamed(to, "tasks"))
  /\ "name" \in FieldPaths(from.tables[2])
  /\ TypesAt(from.tables[2], "name") = <<"string", "number">>
  /\ SortedTypes(<<"string", "number">>) # <<"string", "number">>

\* C28: for any two snapshots, those listing a table name more than once
\* included, each table name appears in at most one TableDiff; the kind of a
\* TableDiff is added iff its name occurs only in `to`, removed iff only in
\* `from`, and modified only if it occurs in both.
C28_UniquePerTable ==
  Diffed =>
    /\ \A i, j \in DOMAIN drift.tableDiffs :
         drift.tableDiffs[i].table = drift.tableDiffs[j].table => i = j
    /\ \A i \in DOMAIN drift.tableDiffs :
         LET d == drift.tableDiffs[i]
             inFrom == d.table \in TableNames(from)
             inTo == d.table \in TableNames(to)
         IN /\ d.change = "added" <=> (inTo /\ ~inFrom)
            /\ d.change = "removed" <=> (inFrom /\ ~inTo)
            /\ d.change = "modified" => (inFrom /\ inTo)

\* `from` lists a name twice with different fields; that table is modified
\* and another one is added
C28_Witness ==
  /\ Diffed
  /\ HasRepeatedTable(from)
  /\ from.tables[1] # from.tables[2]
  /\ Len(drift.tableDiffs) = 2
  /\ drift.tableDiffs[1].change = "added"
  /\ drift.tableDiffs[2].change = "modified"

\* C24: inferSchemaFromDocs(tableName, []) returns a schema with table =
\* tableName, an empty fields list and sampledDocs = 0, together with an empty
\* relations list.
C24_EmptySample ==
  (Inferred /\ samples.docs = <<>>) =>
    /\ DOMAIN inference = {"schema", "relations"}
    /\ inference.schema.table = samples.tableName
    /\ inference.schema.fields = <<>>
    /\ inference.schema.sampledDocs = 0
    /\ inference.relations = <<>>

C24_Witness ==
  /\ Inferred
  /\ samples.docs = <<>>
  /\ samples.tableName = "users"
  /\ inference.schema.table = "users"

(***************************************************************************)
(* Further properties of import following                                  *)
(***************************************************************************)
Returned == walk.pc = "done"

EntryRead ==
  findSchemaFile(fs) # <<>> /\ Truthy(readFileContent(fs, SchemaUri))

\* the first candidate that holds content, <<>> if none does
FirstReadable(cands) ==
  LET hits == {i \in DOMAIN cands : Truthy(readFileContent(fs, cands[i]))}
  IN IF hits = {} THEN <<>> ELSE <<cands[MinOf(hits)]>>

\* the files the re-exports of a barrel resolve to, one per statement
RECURSIVE ReExportedTexts(_, _)
ReExportedTexts(dir, moduleNames) ==
  IF moduleNames = <<>> THEN <<>>
  ELSE FirstReadable(ReExportCandidates(dir, Head(moduleNames)))
       \o ReExportedTexts(dir, Tail(moduleNames))

\* the file an import path resolves to and the files it re-exports
TextsOfImport(importPath) ==
  LET resolved == FirstReadable(ImportCandidates(DirOf(SchemaUri), importPath))
  IN IF resolved = <<>> THEN <<>>
     ELSE resolved \o ReExportedTexts(DirOf(resolved[1]),
                                      reExportPattern(fs[resolved[1]].content))

RECURSIVE TextsOfImports(_)
TextsOfImports(importPaths) ==
  IF importPaths = <<>> THEN <<>>
  ELSE TextsOfImport(Head(importPaths)) \o TextsOfImports(Tail(importPaths))

\* every file text resolved during import following
ResolvedTexts ==
  <<SchemaUri>> \o TextsOfImports(SetOrder(importPattern(fs[SchemaUri].content)))

RECURSIVE TablesOfSources(_)
TablesOfSources(sources) ==
  IF sources = <<>> THEN <<>>
  ELSE TablesOf(Head(sources)) \o TablesOfSources(Tail(sources))

\* the text of every resolved file that defines a table is among the parsed
\* sources, and the tables returned are those of the parsed sources
ResolvedTextsReturned ==
  /\ \A u \in Range(ResolvedTexts) :
       TablesOf(fs[u].content) # <<>> => fs[u].content \in Range(walk.sources)
  /\ walk.parsed = Len(walk.sources)
  /\ walk.tables = TablesOfSources(walk.sources)

\* a barrel: a resolved import that defines a table and has a re-export that
\* resolves
BarrelWithTable ==
  \E p \in Range(importPattern(fs[SchemaUri].content)) :
    LET resolved == FirstReadable(ImportCandidates(DirOf(SchemaUri), p))
    IN /\ resolved # <<>>
       /\ TablesOf(fs[resolved[1]].content) # <<>>
       /\ ReExportedTexts(DirOf(resolved[1]),
                          reExportPattern(fs[resolved[1]].content)) # <<>>

\* C25: every file text resolved during import following (the entry file,
\* each imported file, barrel files included, and each file a barrel
\* re-exports) is parsed and contributes its tables to the result; a table
\* defined in a barrel that also re-exports other modules is in the output.
C25_AllResolvedParsed == (Returned /\ EntryRead) => ResolvedTextsReturned

\* an import whose first candidate cannot be read
SkippedImportCandidate ==
  \E p \in Range(importPattern(fs[SchemaUri].content)) :
    ~Truthy(readFileContent(fs, ImportCandidates(DirOf(SchemaUri), p)[1]))

\* C23: with no entry schema file, or one whose content cannot be read,
\* parseConvexSchema returns an empty result; an import or re-export
\* candidate that cannot be read is skipped, the next one is tried, and the
\* tables of the entry file and of all other readable files are returned.
C23_FailureSemantics ==
  /\ (Returned /\ ~EntryRead) => (walk.tables = <<>> /\ walk.sources = <<>>)
  /\ (Returned /\ EntryRead /\ SkippedImportCandidate) =>
       /\ Range(TablesOf(fs[SchemaUri].content)) \subseteq Range(walk.tables)
       /\ ResolvedTextsReturned

(***************************************************************************)
(* resolveValidatorType on literal validators                              *)
(*                                                                         *)
(* The argument text of v.literal(...) as fieldPattern captures it: a      *)
(* string literal in double or in single quotes.                           *)
(***************************************************************************)
LiteralArg(quote, value) == <<quote>> \o value \o <<quote>>

LiteralArgs ==
  {LiteralArg(q, value) :
     q \in {Quote, "'"},
     value \in {<<"todo">>, <<"done">>, <<"its">>, <<"to", " ", "do">>, <<>>}}
  \cup {LiteralArg(Quote, <<"it", "'", "s">>),
        LiteralArg("'", <<"say", " ", Quote, "hi", Quote>>),
        LiteralArg("'", <<"say", " ", "hi">>)}

InitResolve ==
  /\ validatorArgs \in LiteralArgs \X LiteralArgs
  /\ typeNames = NoTypeNames
  /\ DriftIdle
  /\ AnalyzerIdle
  /\ ImportIdle
  /\ ParserIdle
  /\ ScanIdle
  /\ InferIdle
  /\ ChainIdle
  /\ WatcherIdle

\* resolveValidatorType("literal", validatorArg) for each of the two texts
ResolveLiterals ==
  /\ typeNames = NoTypeNames
  /\ typeNames' = <<resolveValidatorType("literal", validatorArgs[1]),
                    resolveValidatorType("literal", validatorArgs[2])>>
  /\ UNCHANGED <<validatorArgs, driftVars, analyzerVars, importVars, parserVars, scanVars, inferVars, chainVars, watcherVars>>

NextResolve == ResolveLiterals

SpecResolve == InitResolve /\ [][NextResolve]_vars

LiteralsResolved == typeNames # NoTypeNames

\* the value of a string literal: the text between its quotes
LiteralValue(arg) == Text(SubSeq(arg, 2, Len(arg) - 1))

\* distinct literal values have distinct type names
DistinctLiterals ==
  LiteralValue(validatorArgs[1]) # LiteralValue(validatorArgs[2])
    => typeNames[1] # typeNames[2]

\* C22: a literal validator with the argument text "todo" resolves to the
\* single type name todo, the quotes stripped and the value kept; distinct
\* literal values resolve to distinct type names.
C22_LiteralRoundTrip ==
  LiteralsResolved =>
    /\ \A i \in 1..2 :
         validatorArgs[i] = LiteralArg(Quote, <<"todo">>) => typeNames[i] = <<"todo">>
    /\ DistinctLiterals

(***************************************************************************)
(* extractQueryUsages on one query file: a statement holding a query chain *)
(* in one of the layouts a formatter gives it                              *)
(***************************************************************************)
\* index names, operators of the stages and the terminal call of a chain
Chains ==
  {c \in [tableName : {"tasks"},
          indexName : {<<>>, <<"by_project">>, <<"by_due_date">>},
          rangeFieldCount : {0, 1},
          filter : {"", "eq"},
          terminal : {"", "collect", "take", "first"}] :
     c.indexName = <<>> => c.rangeFieldCount = 0}

Indent == <<" ">>

ReturnAwait == Indent \o <<"return", " ", "await", " ">>

\* the segments from the k-th on, one per line, the last one with the semicolon
RECURSIVE SegmentLines(_, _)
SegmentLines(segments, k) ==
  IF k > Len(segments) THEN <<>>
  ELSE <<Indent \o Indent \o segments[k] \o (IF k = Len(segments) THEN <<";">> ELSE <<>>)>>
       \o SegmentLines(segments, k + 1)

BlankLines(n) == [i \in 1..n |-> Indent]

\* the query call alone: what a window that ends before the later calls holds
QueryOnly(c) ==
  [c EXCEPT !.indexName = <<>>, !.rangeFieldCount = 0, !.filter = "", !.terminal = ""]

Layouts_chain == {"oneLine", "perCall", "afterQuery", "padded", "nextStatement"}

\* the lines of the file
ChainLines(c, layout) ==
  LET segments == ChainSegments(c)
  IN CASE layout = "oneLine" -> <<ReturnAwait \o OneLine(c)>>
       \* a line break before every method call, .query included
       [] layout = "perCall" ->
            <<ReturnAwait \o <<"ctx", ".", "db">>>> \o SegmentLines(segments, 1)
       \* ctx.db.query("t") on the first line, a line break before every later call
       [] layout = "afterQuery" ->
            IF Len(segments) = 1 THEN <<ReturnAwait \o OneLine(c)>>
            ELSE <<ReturnAwait \o <<"ctx", ".", "db">> \o segments[1]>>
                 \o SegmentLines(segments, 2)
       \* the later calls pushed behind the window by blank lines
       [] layout = "padded" ->
            <<ReturnAwait \o <<"ctx", ".", "db">> \o segments[1]>>
            \o BlankLines(ChainWindow - 1)
            \o SegmentLines(segments, 2) \o <<Indent \o <<";">>>>
       \* the statement on one line, followed by another statement
       [] layout = "nextStatement" ->
            <<ReturnAwait \o OneLine(c),
              Indent \o <<"other">> \o Call("withIndex", Str("by_other"))
                     \o Call("filter", FilterCallback("eq")) \o Call("collect", <<>>)
                     \o Call("take", <<"1">>) \o Call("first", <<>>) \o <<";">>>>

InitChain ==
  /\ \E c \in Chains : \E layout \in Layouts_chain :
       chainFile = [filePath |-> "convex/tasks.ts", chain |-> c, layout |-> layout,
                    content |-> Content(ChainLines(c, layout))]
  /\ extraction = NoExtraction
  /\ knownIndexes \in
       {<<>>, <<[table |-> "tasks", name |-> "by_project",
                fields |-> <<"projectId", "status">>, type |-> "by_field"]>>}
  /\ usage = NoUsage
  /\ coverage = NoCoverage
  /\ DriftIdle
  /\ ImportIdle
  /\ ParserIdle
  /\ ScanIdle
  /\ InferIdle
  /\ ResolveIdle
  /\ WatcherIdle

\* one pass of the file loop of analyzeIndexCoverage on the file
ExtractUsages ==
  /\ extraction = NoExtraction
  /\ LET usages == extractQueryUsages(chainFile.filePath, chainFile.content)
     IN extraction' = [usages |-> usages,
                       issues |-> evaluateUsages(usages, buildIndexMap(knownIndexes))]
  /\ UNCHANGED <<chainFile, analyzerVars, driftVars, importVars, parserVars, scanVars, inferVars, resolveVars, watcherVars>>

NextChain == ExtractUsages

SpecChain == InitChain /\ [][NextChain]_vars

Extracted == extraction # NoExtraction

\* what a usage says of its chain: all but the place it was found at
Essence(usages) ==
  [i \in DOMAIN usages |->
     [tableName |-> usages[i].tableName, indexName |-> usages[i].indexName,
      hasCollect |-> usages[i].hasCollect, hasTake |-> usages[i].hasTake,
      hasFirst |-> usages[i].hasFirst, hasFilter |-> usages[i].hasFilter,
      rangeFieldCount |-> usages[i].rangeFieldCount]]

OnOneLine(c) ==
  Essence(extractQueryUsages(chainFile.filePath, Content(ChainLines(c, "oneLine"))))

\* C26: a chain split over several lines at method-call boundaries (a break
\* between ctx.db and .query("t"), and .withIndex, .filter, .collect each on
\* its own line), within 10 lines and ended by the semicolon, yields one usage
\* with the table, index name, collect/take/first flags, filter flag and range
\* count of the chain written on one line; lines after the statement
\* terminator or beyond the 10-line window never contribute.
C26_ChainsAcrossLines ==
  Extracted =>
    LET c == chainFile.chain
        found == Essence(extraction.usages)
    IN /\ Len(OnOneLine(c)) = 1
       /\ chainFile.layout \in {"perCall", "afterQuery"} => found = OnOneLine(c)
       /\ chainFile.layout = "nextStatement" => found = OnOneLine(c)
       /\ chainFile.layout = "padded" => found = OnOneLine(QueryOnly(c))

\* C27: rangeFieldCount is the number of eq/lt/gt/lte/gte operators applied
\* inside the withIndex range callback; operators of an in-memory .filter(...)
\* stage are not counted, so .withIndex("known").filter((q) => q.eq(...))
\* .collect() has rangeFieldCount 0 and gets the medium issue of a scan of
\* the full index.
C27_RangeCount ==
  (Extracted /\ chainFile.layout = "oneLine") =>
    LET c == chainFile.chain
    IN /\ Len(extraction.usages) = 1
       /\ extraction.usages[1].rangeFieldCount = c.rangeFieldCount
       /\ ( /\ c.indexName # <<>>
            /\ \E i \in DOMAIN knownIndexes : knownIndexes[i].name = c.indexName[1]
            /\ c.rangeFieldCount = 0
            /\ c.filter = "eq"
            /\ c.terminal = "collect" )
          => \E i \in DOMAIN extraction.issues : extraction.issues[i].severity = "medium"

(***************************************************************************)
(* QueryWatcher: startWatching, stopWatching, the interval callback and    *)
(* the completion of the query runs they await                             *)
(***************************************************************************)
MaxStarts == 2
MaxTicks == 2

QueryNames == {"tasks:list", "users:list"}

\* what _runQuery does when the run settles: fire onUpdate, fire onError, or
\* nothing at all (no workspace folder)
RunOutcomes == {"update", "error", "none"}

\* the watcher after construction; timer 0 is `undefined`, timers are the
\* interval timers scheduled and not cleared, starting the startWatching calls
\* awaiting their initial run, polling the interval callbacks awaiting their run;
\* requested and lastCall keep the latest call made on the watcher
NewWatcher ==
  [isWatching |-> FALSE, timer |-> 0, timers |-> {}, starting |-> {}, polling |-> {},
   starts |-> 0, ticks |-> 0, requested |-> "", lastCall |-> "none", disposed |-> FALSE]

InitWatcher ==
  /\ watcher = NewWatcher
  /\ emitted = <<>>
  /\ DriftIdle
  /\ AnalyzerIdle
  /\ ImportIdle
  /\ ParserIdle
  /\ ScanIdle
  /\ InferIdle
  /\ ResolveIdle
  /\ ChainIdle

\* stopWatching(): _isWatching = false; clearInterval(_timer); _timer = undefined
stopWatching(w) ==
  [w EXCEPT !.isWatching = FALSE,
            !.timers = {t \in @ : t.id # w.timer},
            !.timer = 0]

\* EventEmitter.fire: a disposed emitter has no listeners left
fire(events, w, kind, queryName) ==
  IF w.disposed THEN events
  ELSE Append(events, [kind |-> kind, queryName |-> queryName,
                       watching |-> w.isWatching, requested |-> w.requested])

\* _runQuery once the convex run has settled
runQuery(events, w, queryName, outcome) ==
  CASE outcome = "update" -> fire(events, w, "onUpdate", queryName)
    [] outcome = "error" -> fire(events, w, "onError", queryName)
    [] outcome = "none" -> events

\* startWatching(queryFunctionName) up to its await
StartWatching ==
  /\ watcher.starts < MaxStarts
  /\ \E queryFunctionName \in QueryNames : \E deployment \in BOOLEAN :
       LET called == [watcher EXCEPT !.starts = @ + 1,
                                     !.requested = queryFunctionName,
                                     !.lastCall = "startWatching"]
           stopped == IF called.isWatching THEN stopWatching(called) ELSE called
       IN IF ~deployment
          THEN /\ watcher' = stopped
               /\ emitted' = fire(emitted, stopped, "onError", "")
          ELSE /\ watcher' = [stopped EXCEPT
                                !.isWatching = TRUE,
                                !.starting = @ \cup {[id |-> stopped.starts,
                                                      queryName |-> queryFunctionName]}]
               /\ emitted' = emitted
  /\ UNCHANGED <<driftVars, analyzerVars, importVars, parserVars, scanVars, inferVars, resolveVars, chainVars>>

\* the initial run settles and startWatching goes on: _timer = setInterval(...)
CompleteInitialRun ==
  /\ \E call \in watcher.starting : \E outcome \in RunOutcomes :
       /\ emitted' = runQuery(emitted, watcher, call.queryName, outcome)
       /\ watcher' = [watcher EXCEPT
                        !.starting = @ \ {call},
                        !.timers = @ \cup {[id |-> call.id, queryName |-> call.queryName]},
                        !.timer = call.id]
  /\ UNCHANGED <<driftVars, analyzerVars, importVars, parserVars, scanVars, inferVars, resolveVars, chainVars>>

StopWatching ==
  /\ watcher' = [stopWatching(watcher) EXCEPT !.lastCall = "stopWatching"]
  /\ UNCHANGED <<emitted, driftVars, analyzerVars, importVars, parserVars, scanVars, inferVars, resolveVars, chainVars>>

\* the interval callback of a scheduled timer, up to its await
Tick ==
  /\ watcher.ticks < MaxTicks
  /\ \E t \in watcher.timers :
       watcher' = IF ~watcher.isWatching
                  THEN [watcher EXCEPT !.ticks = @ + 1]
                  ELSE [watcher EXCEPT !.ticks = @ + 1,
                                       !.polling = @ \cup {[id |-> watcher.ticks + 1,
                                                            queryName |-> t.queryName]}]
  /\ UNCHANGED <<emitted, driftVars, analyzerVars, importVars, parserVars, scanVars, inferVars, resolveVars, chainVars>>

\* the run of an interval callback settles
CompletePoll ==
  /\ \E run \in watcher.polling : \E outcome \in RunOutcomes :
       /\ emitted' = runQuery(emitted, watcher, run.queryName, outcome)
       /\ watcher' = [watcher EXCEPT !.polling = @ \ {run}]
  /\ UNCHANGED <<driftVars, analyzerVars, importVars, parserVars, scanVars, inferVars, resolveVars, chainVars>>

\* dispose(): stopWatching(), then both emitters are disposed
Dispose ==
  /\ ~watcher.disposed
  /\ watcher' = [stopWatching(watcher) EXCEPT !.lastCall = "stopWatching",
                                              !.disposed = TRUE]
  /\ UNCHANGED <<emitted, driftVars, analyzerVars, importVars, parserVars, scanVars, inferVars, resolveVars, chainVars>>

NextWatcher ==
  \/ StartWatching
  \/ CompleteInitialRun
  \/ StopWatching
  \/ Tick
  \/ CompletePoll
  \/ Dispose

SpecWatcher == InitWatcher /\ [][NextWatcher]_vars

\* C29: the watcher keeps at most one polling timer: after any interleaving
\* of startWatching and stopWatching calls with the completion of in-flight
\* initial runs at most one interval timer is scheduled, and once
\* stopWatching has been called with no later startWatching, no interval
\* timer remains scheduled after the in-flight calls have settled.
C29_OneTimer ==
  /\ Cardinality(watcher.timers) <= 1
  /\ (watcher.lastCall = "stopWatching" /\ watcher.starting = {})
       => watcher.timers = {}

\* C30: the watcher emits no stale updates: once startWatching(B) has been
\* called, every later onUpdate event carries queryName B, also when B was
\* requested while the initial run of an earlier startWatching(A) was in
\* flight; and no onUpdate event is fired while isWatching is false.
C30_NoStaleUpdates ==
  \A i \in DOMAIN emitted :
    emitted[i].kind = "onUpdate"
      => emitted[i].queryName = emitted[i].requested /\ emitted[i].watching

====
